---- MODULE Spec2Model ----
(***************************************************************************)
(* Contact Interaction Memory Engine (extensions/contact-memory):          *)
(* ContactMemoryManager over its three SQLite tables, the MemoryCompactor  *)
(* and the parts of the indexer and of the GoHighLevel message source that *)
(* feed a sync.  Time is counted in whole days; a timestamp is a day       *)
(* number and an age is a number of days.                                  *)
(***************************************************************************)
EXTENDS Integers, Sequences, FiniteSets, TLC

\* ---------------------------------------------------------------- bounds
MaxTicks == 1          \* days that may pass during a run
MaxConvs == 2          \* conversations of a contact at the source (SpecCompact)
MaxSyncs == 2          \* syncContactFromGHL calls started during a run

\* ------------------------------------------------------ program constants
maxAge == 90                 \* compaction.ts: 90 days
maxInteractions == 100       \* compaction.ts: hard cap
summaryThreshold == 30       \* compaction.ts: 30 days
RecencyFloor == 20           \* compaction.ts: recent.length < 20
OldTrigger == 20             \* compaction.ts: old.length > 20
SyncLimit == 100             \* index.ts: getAllContactMessages(.., 100)
DefaultLimit == 50           \* conversations.ts: limit || 50
SentimentWindow == 10        \* index.ts: interactions.slice(0, 10)
HistoryCap == 20             \* index.ts: .slice(0, 20)
DaysPerWeek == 7             \* compaction.ts: 7 * 24 * 60 * 60 * 1000
DaysPerYear == 365           \* length of the year getWeekKey counts from

\* ------------------------------------------------------------- universe
Contacts == {"c1", "c2"}
Procs == {1, 2}
Day0 == 1000                 \* the day the run starts on
IdStride == 1000             \* distance between the id ranges of the source
NoRow == [none |-> TRUE]

Min(a, b) == IF a < b THEN a ELSE b

\* Concatenation of the sequences ss[lo] .. ss[hi]
RECURSIVE FlattenRange(_, _, _)
FlattenRange(ss, lo, hi) ==
  IF lo > hi THEN << >>
  ELSE IF lo = hi THEN ss[lo]
  ELSE LET mid == (lo + hi) \div 2
       IN  FlattenRange(ss, lo, mid) \o FlattenRange(ss, mid + 1, hi)

Flatten(ss) == FlattenRange(ss, 1, Len(ss))

\* Number of elements of s that satisfy Test
CountSeq(s, Test(_)) == Len(SelectSeq(s, Test))

\* ------------------------------------------------- external message source
\* A conversation at the source: n messages, newest first, in equal runs of
\* the given ages (in days).
Few      == [n |-> 2,   ages |-> << 0, 1 >>]
Fresh50  == [n |-> 50,  ages |-> << 0, 10, 29 >>]
Fresh100 == [n |-> 100, ages |-> << 0, 15, 29, 30 >>]
Aged100  == [n |-> 100, ages |-> << 40, 55, 70, 85, 89, 90, 91, 100 >>]
Aged50   == [n |-> 50,  ages |-> << 40, 95 >>]
Stale100 == [n |-> 100, ages |-> << 95 >>]
Stale50  == [n |-> 50,  ages |-> << 120 >>]
ConvShapes == { Few, Fresh50, Fresh100, Aged100, Aged50, Stale100, Stale50 }

\* A dozen messages of the last days.
Busy   == [n |-> 12, ages |-> << 0, 1, 2 >>]

\* Conversations that say, message by message, their types and bodies:
\* one of several channels, ages and kinds of fact, and one with a message
\* that has no body ("<undefined>").
Mixed  == [n |-> 6, ages |-> << 0, 10, 29, 30, 31, 45 >>,
           types  |-> << "SMS", "Email", "WhatsApp" >>,
           bodies |-> << "I prefer email but it is expensive",
                         "I'll call you back tomorrow", "thank you",
                         "we will send the quote" >>]
Broken == [n |-> 2, ages |-> << 0, 1 >>, bodies |-> << "ok", "<undefined>" >>]

Bodies == << "ok", "thank you", "I'll call you back tomorrow" >>

\* Message k of conversation number j with shape sh, fetched on day today.
SourceMessage(sh, j, k, base, today) ==
  [ id        |-> << "m", base + (j - 1) * (IdStride \div 4) + k >>,
    type      |-> IF "types" \in DOMAIN sh
                  THEN sh.types[((k - 1) % Len(sh.types)) + 1] ELSE "SMS",
    body      |-> IF "bodies" \in DOMAIN sh
                  THEN sh.bodies[((k - 1) % Len(sh.bodies)) + 1]
                  ELSE Bodies[(k % 3) + 1],
    direction |-> IF k % 2 = 0 THEN "inbound" ELSE "outbound",
    dateAdded |-> today - sh.ages[((k - 1) * Len(sh.ages)) \div sh.n + 1] ]

\* What the API holds for one conversation, in the order it returns it.
SourceConversation(sh, j, base, today) ==
  [ k \in 1..sh.n |-> SourceMessage(sh, j, k, base, today) ] \o << >>

\* What the source may hold for a contact when a sync fetches: the contact's
\* conversations and the range its message ids are in.
SourceStates(c) ==
  IF c = "c1"
  THEN { [convs |-> cv, base |-> 0] :
           cv \in { << Few >>, << Aged100 >>, << Fresh100, Few >> } }
  ELSE { [convs |-> << Few >>, base |-> b] : b \in {0, IdStride} }

\* Every list of up to MaxConvs conversations.
WideSources ==
  { [convs |-> cv, base |-> 0] :
      cv \in UNION { [1..m -> ConvShapes] : m \in 1..MaxConvs } }

\* ------------------------------------------- gohighlevel/conversations.ts
\* client.conversations.getMessages returns at most `limit` messages.
getMessages(conv, limit) ==
  SubSeq(conv, 1, Min(Len(conv), IF limit = 0 THEN 100 ELSE limit))

\* Stable sort of messages by dateAdded, newest first (Descending lists the
\* numbers of a set, largest first).
RECURSIVE Descending(_)
Descending(ks) ==
  IF ks = {} THEN << >>
  ELSE LET top == CHOOSE d \in ks : \A e \in ks : e <= d
       IN  << top >> \o Descending(ks \ {top})

SortMessages(s) ==
  LET ds == Descending({ s[i].dateAdded : i \in DOMAIN s })
      Bucket(d) == LET IsD(m) == m.dateAdded = d IN SelectSeq(s, IsD)
  IN  Flatten([ k \in DOMAIN ds |-> Bucket(ds[k]) ])

\* The limit is handed to every conversation's getMessages; the messages of
\* all conversations are then concatenated and sorted.
getAllContactMessages(src, limit, today) ==
  LET n    == Len(src.convs)
      each == [ j \in 1..n |->
                 getMessages(SourceConversation(src.convs[j], j, src.base, today),
                             IF limit = 0 THEN DefaultLimit ELSE limit) ]
  IN  SortMessages(Flatten(each))

\* ------------------------------------------------------ JavaScript strings
\* A body is a string; a character is a string of length 1.  The alphabet of
\* the bodies is letters, digits, the space and punctuation.
Undefined == "<undefined>"       \* the value of a missing message body

LowerLetters == { "a", "b", "c", "d", "e", "f", "g", "h", "i", "j", "k", "l", "m",
                  "n", "o", "p", "q", "r", "s", "t", "u", "v", "w", "x", "y", "z" }
UpperLetters == { "A", "B", "C", "D", "E", "F", "G", "H", "I", "J", "K", "L", "M",
                  "N", "O", "P", "Q", "R", "S", "T", "U", "V", "W", "X", "Y", "Z" }

\* text[i - 1] in 0-based JavaScript terms; "" outside the string.
At(text, i) == IF i >= 1 /\ i <= Len(text) THEN SubSeq(text, i, i) ELSE ""

IsDigit(c) == c \in { "0", "1", "2", "3", "4", "5", "6", "7", "8", "9" }
IsSpace(c) == c = " "
\* \w
IsWordChar(c) == c \in LowerLetters \/ c \in UpperLetters \/ IsDigit(c) \/ c = "_"

lowerChar(c) ==
  IF c \in UpperLetters
  THEN LET k == CHOOSE j \in 1..26 : SubSeq("ABCDEFGHIJKLMNOPQRSTUVWXYZ", j, j) = c
       IN  SubSeq("abcdefghijklmnopqrstuvwxyz", k, k)
  ELSE c

\* String.prototype.toLowerCase on text[lo..hi]
RECURSIVE LowerRange(_, _, _)
LowerRange(text, lo, hi) ==
  IF lo > hi THEN ""
  ELSE IF lo = hi THEN lowerChar(At(text, lo))
  ELSE LET mid == (lo + hi) \div 2
       IN  LowerRange(text, lo, mid) \o LowerRange(text, mid + 1, hi)

toLowerCase(text) == LowerRange(text, 1, Len(text))

\* word occurs in text at position i
StartsAt(text, i, word) ==
  /\ i >= 1
  /\ i + Len(word) - 1 <= Len(text)
  /\ SubSeq(text, i, i + Len(word) - 1) = word

\* String.prototype.includes
includes(text, word) == \E i \in 1..Len(text) : StartsAt(text, i, word)

\* The least and the greatest number of a set of numbers.
Least(S) == CHOOSE j \in S : \A h \in S : j <= h
Greatest(S) == CHOOSE j \in S : \A h \in S : h <= j

\* text from the first to the last of the positions `inked` (not white space)
TrimTo(text, inked) ==
  IF inked = {} THEN "" ELSE SubSeq(text, Least(inked), Greatest(inked))

\* String.prototype.trim
trim(text) == TrimTo(text, { k \in 1..Len(text) : ~ IsSpace(At(text, k)) })

\* \b between text[i - 1] and text[i]
WordBoundary(text, i) == IsWordChar(At(text, i - 1)) # IsWordChar(At(text, i))

\* Number of digits text holds from position i on, at most cap.
DigitRun(text, i, cap) ==
  CHOOSE n \in 0..cap :
    /\ \A k \in 0..(n - 1) : IsDigit(At(text, i + k))
    /\ (n = cap \/ ~ IsDigit(At(text, i + n)))

\* Number of spaces text holds from position i on.
SpaceRun(text, i) ==
  CHOOSE n \in 0..Len(text) :
    /\ \A k \in 0..(n - 1) : IsSpace(At(text, i + k))
    /\ ~ IsSpace(At(text, i + n))

\* ------------------------------------- the regular expressions of indexer.ts
\* A match is [at, end, from, to]: where it starts, the position after it
\* and the text[from..to] it yields (the whole match, or capture group 1);
\* NoMatch is no match.
NoMatch == [at |-> 0, end |-> 0, from |-> 0, to |-> 0]
Matched(i, end) == [at |-> i, end |-> end, from |-> i, to |-> end - 1]

\* The alternatives of a pattern of words, in lower case.
PatternWords(kind) ==
  CASE kind = "weekday"    -> << "monday", "tuesday", "wednesday", "thursday",
                                 "friday", "saturday", "sunday" >>
    [] kind = "relative"   -> << "tomorrow", "today", "next week", "next month" >>
    [] kind = "commitI"    -> << "i'll", "i will", "let me", "i can" >>
    [] kind = "commitWe"   -> << "we'll", "we will" >>
    [] kind = "preferI"    -> << "i prefer", "i like", "i want", "i need" >>
    [] kind = "preferBare" -> << "prefer", "like", "want", "need" >>

\* The match of the first of the alternatives `ok` that match at i.
WordMatchOf(i, words, ok) ==
  IF ok = {} THEN NoMatch ELSE Matched(i, i + Len(words[Least(ok)]))

\* /\b(?:w1|w2|..)\b/gi at position i
WordMatch(text, lower, i, words) ==
  WordMatchOf(i, words,
              { k \in DOMAIN words :
                  /\ StartsAt(lower, i, words[k])
                  /\ WordBoundary(text, i)
                  /\ WordBoundary(text, i + Len(words[k])) })

\* A choice for M/D[/Y]: a and b digits, then g digits of year (0: none).
DateEnd(i, c) == i + c.a + 1 + c.b + (IF c.g > 0 THEN 1 + c.g ELSE 0)
DateRank(c) == c.a * 100 + c.b * 10 + c.g
BestDate(ok) == CHOOSE d \in ok : \A e \in ok : DateRank(e) <= DateRank(d)
NumericDateOf(i, ok) ==
  IF ok = {} THEN NoMatch ELSE Matched(i, DateEnd(i, BestDate(ok)))

\* /\b\d{1,2}\/\d{1,2}(?:\/\d{2,4})?\b/g at position i: the longest choice
\* of a, then of b, then of the year g that ends at a \b.
NumericDateMatch(text, i) ==
  IF ~ IsDigit(At(text, i)) THEN NoMatch
  ELSE NumericDateOf(i,
         { c \in [a : {1, 2}, b : {1, 2}, g : {0, 2, 3, 4}] :
             /\ WordBoundary(text, i)
             /\ DigitRun(text, i, 2) >= c.a
             /\ At(text, i + c.a) = "/"
             /\ DigitRun(text, i + c.a + 1, 2) >= c.b
             /\ c.g > 0 => /\ At(text, i + c.a + 1 + c.b) = "/"
                           /\ DigitRun(text, i + c.a + c.b + 2, 4) >= c.g
             /\ WordBoundary(text, DateEnd(i, c)) })

\* A choice for H:MM am: a digits of hour, w spaces, m letters of am/pm.
TimeEnd(i, c) == i + c.a + 3 + c.w + c.m
TimeRank(c) == c.a * 10000 + c.w * 10 + c.m
BestTime(ok) == CHOOSE d \in ok : \A e \in ok : TimeRank(e) <= TimeRank(d)
TimeOf(i, ok) ==
  IF ok = {} THEN NoMatch ELSE Matched(i, TimeEnd(i, BestTime(ok)))

\* /\b\d{1,2}:\d{2}\s*(?:am|pm)?\b/gi at position i: the longest choice of
\* the hour digits a, then of the white space w, then am or pm before none.
TimeMatch(text, lower, i) ==
  IF ~ IsDigit(At(text, i)) THEN NoMatch
  ELSE TimeOf(i,
         { c \in [a : {1, 2},
                  w : 0..(SpaceRun(text, i + 4) + SpaceRun(text, i + 5)),
                  m : {0, 2}] :
             /\ WordBoundary(text, i)
             /\ DigitRun(text, i, 2) >= c.a
             /\ At(text, i + c.a) = ":"
             /\ DigitRun(text, i + c.a + 1, 2) = 2
             /\ c.w <= SpaceRun(text, i + c.a + 3)
             /\ c.m = 2 => \/ StartsAt(lower, i + c.a + 3 + c.w, "am")
                           \/ StartsAt(lower, i + c.a + 3 + c.w, "pm")
             /\ WordBoundary(text, TimeEnd(i, c)) })

\* (?:,\d{3})* from position e on: the position after it
RECURSIVE ThousandsEnd(_, _)
ThousandsEnd(text, e) ==
  IF At(text, e) = "," /\ DigitRun(text, e + 1, 3) = 3
  THEN ThousandsEnd(text, e + 4)
  ELSE e

\* (?:\.\d{2})? from position g on: the position after it
CentsEnd(text, g) ==
  IF At(text, g) = "." /\ DigitRun(text, g + 1, 2) = 2 THEN g + 3 ELSE g

\* /\$\d+(?:,\d{3})*(?:\.\d{2})?/g at position i
PriceMatch(text, i) ==
  IF At(text, i) = "$" /\ IsDigit(At(text, i + 1))
  THEN Matched(i, CentsEnd(text,
                    ThousandsEnd(text, i + 1 + DigitRun(text, i + 1, Len(text)))))
  ELSE NoMatch

\* The position after the white space that starts at j.
AfterSpaces(text, j) == j + SpaceRun(text, j)

\* (.+?)(?:\.|$) from position a on, the match having started at i: group 1
\* runs to before the first of the positions `stops` after a, or to the end
\* of the text.
ClauseTo(text, i, a, stops) ==
  IF stops = {}
  THEN [at |-> i, end |-> Len(text) + 1, from |-> a, to |-> Len(text)]
  ELSE [at |-> i, end |-> Least(stops) + 1, from |-> a, to |-> Least(stops) - 1]

Clause_ToComma(text, i, a) ==
  ClauseTo(text, i, a, { j \in (a + 1)..Len(text) : At(text, j) \in { ".", "," } })

Clause(text, i, a) ==
  ClauseTo(text, i, a, { j \in (a + 1)..Len(text) : At(text, j) = "." })

\* The match of the first of the alternatives `ok` that match at i.
TriggerMatchOf(text, i, triggers, ok) ==
  IF ok = {} THEN NoMatch
  ELSE Clause(text, i, AfterSpaces(text, i + Len(triggers[Least(ok)])))

\* /(?:t1|t2|..)\s+(.+?)(?:\.|$)/gi at position i
TriggerMatch(text, lower, i, triggers) ==
  TriggerMatchOf(text, i, triggers,
                 { k \in DOMAIN triggers :
                     /\ StartsAt(lower, i, triggers[k])
                     /\ IsSpace(At(text, i + Len(triggers[k])))
                     /\ AfterSpaces(text, i + Len(triggers[k])) <= Len(text) })

MatchAt(kind, text, lower, i) ==
  CASE kind \in { "weekday", "relative" } ->
         WordMatch(text, lower, i, PatternWords(kind))
    [] kind = "numericDate" -> NumericDateMatch(text, i)
    [] kind = "time"        -> TimeMatch(text, lower, i)
    [] kind = "price"       -> PriceMatch(text, i)
    [] OTHER -> TriggerMatch(text, lower, i, PatternWords(kind))

\* text.matchAll(pattern): the matches from position pos on, left to right,
\* each search starting where the match before ended.
RECURSIVE MatchAllFrom(_, _, _, _)
MatchThen(kind, text, lower, m) ==
  << SubSeq(text, m.from, m.to) >> \o MatchAllFrom(kind, text, lower, m.end)

\* ms: the matches at the positions still to search (m ranges over the one
\* leftmost of them)
NextMatches(kind, text, lower, ms) ==
  IF ms = {} THEN << >>
  ELSE CHOOSE all \in { MatchThen(kind, text, lower, m) :
                          m \in { n \in ms : \A o \in ms : n.at <= o.at } } : TRUE

MatchAllFrom(kind, text, lower, pos) ==
  NextMatches(kind, text, lower,
              { MatchAt(kind, text, lower, i) : i \in pos..Len(text) } \ { NoMatch })

matchAll(text, kind) ==
  CHOOSE all \in { MatchAllFrom(kind, text, lower, 1) :
                     lower \in { toLowerCase(text) } } : TRUE

\* --------------------------------------------- contact-memory/indexer.ts
PositiveWords == << "thank", "great", "excellent", "perfect", "happy", "love",
                    "amazing" >>
NegativeWords == << "bad", "terrible", "awful", "hate", "frustrated", "angry",
                    "disappointed" >>

\* Number of the words that text includes
CountIncluded(text, words) ==
  Cardinality({ k \in DOMAIN words : includes(text, words[k]) })

SentimentOfScore(score) ==
  IF score > 0 THEN "positive" ELSE IF score < 0 THEN "negative" ELSE "neutral"

SentimentOfLower(lowerText) ==
  SentimentOfScore(CountIncluded(lowerText, PositiveWords)
                     - CountIncluded(lowerText, NegativeWords))

analyzeSentiment(text) == SentimentOfLower(toLowerCase(text))

\* The matches of one pattern as entities of a type and confidence.
AsEntities(ms, type, confidence) ==
  [ k \in DOMAIN ms |-> [type |-> type, value |-> ms[k],
                         confidence |-> confidence] ]

\* The patterns of extractEntities, in the order they are applied.
EntityPatterns ==
  << [kind |-> "weekday",     type |-> "date",  confidence |-> 8],
     [kind |-> "relative",    type |-> "date",  confidence |-> 8],
     [kind |-> "numericDate", type |-> "date",  confidence |-> 8],
     [kind |-> "time",        type |-> "time",  confidence |-> 8],
     [kind |-> "price",       type |-> "price", confidence |-> 9] >>

EntitiesOf(text, pattern) ==
  AsEntities(matchAll(text, pattern.kind), pattern.type, pattern.confidence)

extractEntities(text) ==
  Flatten([ k \in DOMAIN EntityPatterns |-> EntitiesOf(text, EntityPatterns[k]) ])

TopicKeywords ==
  << [topic |-> "pricing",
      keywords |-> << "price", "cost", "pricing", "quote", "estimate", "budget",
                      "expensive", "cheap" >>],
     [topic |-> "scheduling",
      keywords |-> << "appointment", "schedule", "meeting", "book", "calendar",
                      "available" >>],
     [topic |-> "support",
      keywords |-> << "help", "issue", "problem", "question", "support", "assist" >>],
     [topic |-> "product",
      keywords |-> << "product", "service", "feature", "plan", "package" >>],
     [topic |-> "billing",
      keywords |-> << "bill", "invoice", "payment", "charge", "subscription" >>] >>

\* The topics at the places `hits` of TopicKeywords, in their order.
TopicsAt(hits) ==
  [ k \in 1..Cardinality(hits) |->
     TopicKeywords[CHOOSE j \in hits :
                     Cardinality({ h \in hits : h < j }) = k - 1].topic ]

TopicsOfLower(lowerText) ==
  TopicsAt({ k \in DOMAIN TopicKeywords :
               CountIncluded(lowerText, TopicKeywords[k].keywords) > 0 })

extractTopics(text) == TopicsOfLower(toLowerCase(text))

summarizeMessage(text) ==
  IF Len(text) <= 100 THEN text ELSE SubSeq(text, 1, 97) \o "..."

mapChannelType(ghlType) ==
  CASE ghlType = "SMS" -> "sms"
    [] ghlType = "Email" -> "email"
    [] ghlType = "WhatsApp" -> "whatsapp"
    [] ghlType = "Live_Chat" -> "webchat"
    [] OTHER -> "other"

ObjectionWords == << "but", "however", "concern", "worried", "expensive",
                     "too much" >>

\* The patterns of extractKeyFacts, in the order they are applied.
FactPatterns ==
  << [kind |-> "commitI",    prefix |-> "Commitment: ", confidence |-> 7,
      category |-> "commitment"],
     [kind |-> "commitWe",   prefix |-> "Commitment: ", confidence |-> 7,
      category |-> "commitment"],
     [kind |-> "preferI",    prefix |-> "Preference: ", confidence |-> 6,
      category |-> "preference"],
     [kind |-> "preferBare", prefix |-> "Preference: ", confidence |-> 6,
      category |-> "preference"] >>

\* match[1]?.trim() of every match
Trimmed(ms) == [ k \in DOMAIN ms |-> trim(ms[k]) ]

\* commitment.length > 5 && commitment.length < 200
FitsFact(clause) == Len(clause) > 5 /\ Len(clause) < 200

AsFacts(clauses, pattern) ==
  [ k \in DOMAIN clauses |-> [fact |-> pattern.prefix \o clauses[k],
                              confidence |-> pattern.confidence,
                              category |-> pattern.category] ]

\* The facts of the matches of one pattern: group 1 trimmed, kept when it is
\* longer than 5 and shorter than 200.
FactsOf(text, pattern) ==
  AsFacts(SelectSeq(Trimmed(matchAll(text, pattern.kind)), FitsFact), pattern)

\* The fact of the first of the objection words at the places `hits`.
ObjectionAt(hits) ==
  IF hits = {} THEN << >>
  ELSE << [fact |-> "Potential objection mentioned: " \o ObjectionWords[Least(hits)],
           confidence |-> 5, category |-> "objection"] >>

ObjectionOfLower(lowerText) ==
  ObjectionAt({ k \in DOMAIN ObjectionWords : includes(lowerText, ObjectionWords[k]) })

\* The first objection word the text includes, as a fact.
ObjectionFacts(text) == ObjectionOfLower(toLowerCase(text))

\* The facts one interaction body yields: its commitment, preference and
\* objection matches, in the order extractKeyFacts pushes them.
BodyFacts(text) ==
  Flatten([ k \in DOMAIN FactPatterns |-> FactsOf(text, FactPatterns[k]) ])
    \o ObjectionFacts(text)

\* What the indexer derives from one body.
Analyze(text) ==
  [ body      |-> text,
    entities  |-> extractEntities(text),
    sentiment |-> analyzeSentiment(text),
    topics    |-> extractTopics(text),
    facts     |-> BodyFacts(text) ]

\* The bodies the conversations at the source hold, and what the indexer
\* derives from each of them, computed once.
SourceBodies ==
  { Bodies[k] : k \in DOMAIN Bodies } \cup { Mixed.bodies[k] : k \in DOMAIN Mixed.bodies }
AnalysisTable == { Analyze(text) : text \in SourceBodies }

Analysis(text) ==
  IF text \in SourceBodies
  THEN CHOOSE a \in AnalysisTable : a.body = text
  ELSE Analyze(text)

\* indexMessage throws (a TypeError, from extractEntities) when the body is
\* undefined; indexMessage is what it returns otherwise.
indexMessageThrows(message) == message.body = Undefined
TypeError == "Cannot read properties of undefined (reading 'matchAll')"

\* The interaction of a message, given what its body yields.
Interaction(message, a) ==
  [ id          |-> message.id,
    timestamp   |-> message.dateAdded,
    channel     |-> mapChannelType(message.type),
    direction   |-> message.direction,
    summary     |-> summarizeMessage(message.body),
    fullContent |-> message.body,
    entities    |-> a.entities,
    sentiment   |-> a.sentiment,
    topics      |-> a.topics ]

indexMessage(message) == Interaction(message, Analysis(message.body))

indexMessages(messages) ==
  [ i \in DOMAIN messages |-> indexMessage(messages[i]) ] \o << >>

\* The facts of a body as facts of the interaction i.
FactsFrom(i, bf) ==
  [ k \in DOMAIN bf |->
     [ fact       |-> bf[k].fact,
       source     |-> i.id,
       confidence |-> bf[k].confidence,
       timestamp  |-> i.timestamp,
       category   |-> bf[k].category ] ]

\* Each fact pushed gets the next id of nanoid(), of which nano have been
\* handed out before.
Numbered(pushed, nano) ==
  [ k \in DOMAIN pushed |->
     [ id         |-> << "f", nano + k >>,
       fact       |-> pushed[k].fact,
       source     |-> pushed[k].source,
       confidence |-> pushed[k].confidence,
       timestamp  |-> pushed[k].timestamp,
       category   |-> pushed[k].category ] ] \o << >>

\* Facts of all interactions, in the order they are pushed.
extractKeyFacts(interactions, nano) ==
  Numbered(Flatten([ j \in DOMAIN interactions |->
                      FactsFrom(interactions[j],
                                Analysis(interactions[j].fullContent).facts) ]),
           nano)

\* ------------------------------------------ contact-memory/compaction.ts
\* interactions.sort((a, b) => b.timestamp - a.timestamp): stable, newest first.
SortInteractions(s) ==
  LET ds == Descending({ s[i].timestamp : i \in DOMAIN s })
      Bucket(d) == LET IsD(i) == i.timestamp = d IN SelectSeq(s, IsD)
  IN  Flatten([ k \in DOMAIN ds |-> Bucket(ds[k]) ])

\* shouldCompact without its length test.
shouldCompact_NoLengthTest(interactions, today) ==
  LET IsOld(i) == today - i.timestamp > summaryThreshold
  IN  CountSeq(interactions, IsOld) > OldTrigger

shouldCompact(interactions, today) ==
  IF Len(interactions) < maxInteractions THEN FALSE
  ELSE LET IsOld(i) == today - i.timestamp > summaryThreshold
       IN  CountSeq(interactions, IsOld) > OldTrigger

\* The loop of compact without "|| recent.length < 20".
Partition_NoFloor(sorted, today) ==
  LET Fresh(i) == today - i.timestamp < summaryThreshold
      Aged(i)  == ~ Fresh(i)
  IN  [ recent |-> SelectSeq(sorted, Fresh), old |-> SelectSeq(sorted, Aged) ]

\* The loop of compact over the sorted list.  recent.length < 20 holds for
\* exactly the first 20 elements the loop visits, which therefore all go to
\* recent; from the 21st on an element goes to recent iff its age is below
\* summaryThreshold, and to old otherwise.
Partition(sorted, today) ==
  LET n == Len(sorted)
      head == SubSeq(sorted, 1, Min(n, RecencyFloor))
      rest == SubSeq(sorted, RecencyFloor + 1, n)
      Fresh(i) == today - i.timestamp < summaryThreshold
      Aged(i)  == ~ Fresh(i)
  IN  [ recent |-> head \o SelectSeq(rest, Fresh),
        old    |-> SelectSeq(rest, Aged) ]

getWeekKey(timestamp) ==
  << timestamp \div DaysPerYear, (timestamp % DaysPerYear) \div DaysPerWeek >>

determineOverallSentiment(sentiments) ==
  IF sentiments = << >> THEN "neutral"
  ELSE LET IsPos(x) == x = "positive"
           IsNeg(x) == x = "negative"
           pos == CountSeq(sentiments, IsPos)
           neg == CountSeq(sentiments, IsNeg)
       IN  IF pos > neg THEN "positive"
           ELSE IF neg > pos THEN "negative" ELSE "neutral"

\* Keys of the Map of week groups, in insertion order: the week key of every
\* interaction that is the first of its week in the list.
WeekKeys(interactions) ==
  LET at == [ k \in DOMAIN interactions |->
               [k |-> k, wk |-> getWeekKey(interactions[k].timestamp)] ] \o << >>
      First(e) == \A j \in 1..(e.k - 1) : at[j].wk # e.wk
      firsts == SelectSeq(at, First)
  IN  [ k \in DOMAIN firsts |-> firsts[k].wk ]

\* [...new Set(groupInteractions.flatMap((i) => i.topics))]: the topics of
\* the group, each once, in the order they first occur.
Distinct(all) ==
  LET at == [ k \in DOMAIN all |-> [k |-> k, topic |-> all[k]] ]
      First(e) == \A j \in 1..(e.k - 1) : all[j] # e.topic
  IN  [ e \in SelectSeq(at, First) |-> e.topic ]

GroupTopics(g) ==
  IF \A k \in DOMAIN g : g[k].topics = << >> THEN << >>
  ELSE Distinct(Flatten([ k \in DOMAIN g |-> g[k].topics ]))

\* A summary that takes the timestamp of the last member of its group.
GroupSummary_LastMember(g, wk) ==
  IF Len(g) = 1 THEN g[1]
  ELSE [ id          |-> << "summary", wk[1], wk[2] >>,
         timestamp   |-> g[Len(g)].timestamp,
         channel     |-> "other",
         direction   |-> "inbound",
         summary     |-> "Week of",
         fullContent |-> "",
         entities    |-> << >>,
         sentiment   |-> determineOverallSentiment(
                           [ k \in DOMAIN g |-> g[k].sentiment ]),
         topics      |-> GroupTopics(g) ]

\* The summary of one week group; a group of one stays as it is.
GroupSummary(g, wk) ==
  IF Len(g) = 1 THEN g[1]
  ELSE [ id          |-> << "summary", wk[1], wk[2] >>,
         timestamp   |-> g[1].timestamp,
         channel     |-> "other",
         direction   |-> "inbound",
         summary     |-> "Week of",
         fullContent |-> "",
         entities    |-> << >>,
         sentiment   |-> determineOverallSentiment(
                           [ k \in DOMAIN g |-> g[k].sentiment ]),
         topics      |-> GroupTopics(g) ]

WeekGroup(interactions, wk) ==
  LET InWeek(i) == getWeekKey(i.timestamp) = wk
  IN  SelectSeq(interactions, InWeek)

SummariesOf(interactions, keys) ==
  [ k \in DOMAIN keys |-> GroupSummary(WeekGroup(interactions, keys[k]), keys[k]) ]

summarizeInteractions(interactions) ==
  SummariesOf(interactions, WeekKeys(interactions))

\* toKeep without the maxAge filter.
toKeep_NoCeiling(old, today) == old

\* old.filter((i) => now - i.timestamp < this.maxAge)
toKeep(old, today) ==
  LET Young(i) == today - i.timestamp < maxAge
  IN  SelectSeq(old, Young)

\* The locals of compact: the list as sorted in place, recent, old, toKeep,
\* summarized, compacted and final.
LocalsOf(sorted, parts, kept, summarized) ==
  [ sorted |-> sorted, recent |-> parts.recent, old |-> parts.old,
    toKeep |-> kept, summarized |-> summarized,
    compacted |-> parts.recent \o summarized,
    final |-> SubSeq(parts.recent \o summarized, 1,
                     Min(Len(parts.recent) + Len(summarized), maxInteractions)) ]

LocalsOfKept(sorted, parts, kept) ==
  LocalsOf(sorted, parts, kept, summarizeInteractions(kept))

LocalsOfParts(sorted, parts, today) ==
  LocalsOfKept(sorted, parts, toKeep(parts.old, today))

LocalsOfSorted(sorted, today) ==
  LocalsOfParts(sorted, Partition(sorted, today), today)

CompactLocals(interactions, today) ==
  LocalsOfSorted(SortInteractions(interactions), today)

\* compact that reports the list as it came.
compact_KeepsAll(interactions, today) ==
  [ originalCount  |-> Len(interactions),
    compactedCount |-> Len(interactions),
    summarized     |-> 0,
    removed        |-> 0 ]

\* A return value whose removed leaves out what the cap of 100 cut off.
CompactionResult_NoTruncated(interactions, l) ==
  [ originalCount  |-> Len(interactions),
    compactedCount |-> Len(l.final),
    summarized     |-> Len(l.summarized),
    removed        |-> Len(l.old) - Len(l.toKeep) ]

\* compact's return value.
CompactionResult(interactions, l) ==
  [ originalCount  |-> Len(interactions),
    compactedCount |-> Len(l.final),
    summarized     |-> Len(l.summarized),
    removed        |-> (Len(l.old) - Len(l.toKeep))
                       + (Len(l.compacted) - Len(l.final)) ]

compact(interactions, today) ==
  CompactionResult(interactions, CompactLocals(interactions, today))

\* ------------------------------------------------ contact-memory/index.ts
VARIABLES
  db,              \* "null" or "open": this.db
  now,             \* Date.now(), in days
  contact_memory,  \* table contact_memory: contact_id -> row or NoRow
  interactions,    \* table interactions, rows in rowid order
  key_facts,       \* table key_facts, rows in rowid order
  nano,            \* number of ids nanoid() has handed out
  pc,              \* per caller: where its syncContactFromGHL is suspended
  arg,             \* per caller: the contactId of its syncContactFromGHL
  ret,             \* outcome of the call the latest step finished, if any
  calls            \* number of syncContactFromGHL calls made so far

vars == << db, now, contact_memory, interactions, key_facts, nano,
           pc, arg, ret, calls >>

SqlNull == "<NULL>"
\* if (!this.db) throw new Error('Database not initialized')
NoDatabase_Never(d) == FALSE

NoDatabase(d) == d = "null"

NotInitialized == "Database not initialized"
PrimaryKey == "SQLITE_CONSTRAINT_PRIMARYKEY"
ForeignKey == "SQLITE_CONSTRAINT_FOREIGNKEY"

calculateOverallSentiment_NoWindow(inter) ==
  LET IsPos(i) == i.sentiment = "positive"
      IsNeg(i) == i.sentiment = "negative"
      pos == CountSeq(inter, IsPos)
      neg == CountSeq(inter, IsNeg)
  IN  IF pos > neg THEN "positive"
      ELSE IF neg > pos THEN "negative" ELSE "neutral"

calculateOverallSentiment(inter) ==
  LET recent == SubSeq(inter, 1, Min(Len(inter), SentimentWindow))
      IsPos(i) == i.sentiment = "positive"
      IsNeg(i) == i.sentiment = "negative"
      pos == CountSeq(recent, IsPos)
      neg == CountSeq(recent, IsNeg)
  IN  IF recent = << >> THEN "neutral"
      ELSE IF pos > neg THEN "positive"
      ELSE IF neg > pos THEN "negative" ELSE "neutral"

\* interactions.filter((i) => i.sentiment).map(..).slice(0, 20)
SentimentHistory(inter) ==
  LET HasSentiment(i) == i.sentiment # ""
      with == SelectSeq(inter, HasSentiment)
      n == Min(Len(with), HistoryCap)
  IN  [ k \in 1..n |->
         [ timestamp |-> with[k].timestamp,
           sentiment |-> with[k].sentiment,
           score     |-> IF with[k].sentiment = "positive" THEN 1
                         ELSE IF with[k].sentiment = "negative" THEN -1 ELSE 0 ] ]

InteractionRow(contactId, i) ==
  [ id           |-> i.id,
    contact_id   |-> contactId,
    timestamp    |-> i.timestamp,
    channel      |-> i.channel,
    direction    |-> i.direction,
    full_content |-> IF i.fullContent = "" THEN SqlNull ELSE i.fullContent,
    sentiment    |-> IF i.sentiment = "" THEN SqlNull ELSE i.sentiment ]

KeyFactRow(contactId, f) ==
  [ id |-> f.id, contact_id |-> contactId, fact |-> f.fact, source |-> f.source,
    confidence |-> f.confidence, timestamp |-> f.timestamp,
    category |-> f.category ]

HasId(table, id) == \E k \in DOMAIN table : table[k].id = id

\* One INSERT per row, in order; the first one whose id is already in the
\* table (from before, or from an earlier row of this loop) violates the
\* PRIMARY KEY and throws, and the rows inserted before it stay.
InsertRows(table, rows) ==
  LET ids == { table[k].id : k \in DOMAIN table }
      new == { rows[k].id : k \in DOMAIN rows }
      bad == IF ids \cap new = {} /\ Cardinality(new) = Len(rows) THEN {}
             ELSE { k \in DOMAIN rows :
                      \/ rows[k].id \in ids
                      \/ \E j \in 1..(k - 1) : rows[j].id = rows[k].id }
      stop == IF bad = {} THEN Len(rows) + 1
              ELSE CHOOSE k \in bad : \A j \in bad : k <= j
  IN  [ table |-> table \o SubSeq(rows, 1, stop - 1), ok |-> bad = {} ]

\* A DELETE that removes nothing.
DeleteContact_Nothing(table, contactId) == table

\* A DELETE without the WHERE clause.
DeleteContact_All(table, contactId) == << >>

\* DELETE FROM <table> WHERE contact_id = ?
DeleteContact(table, contactId) ==
  LET Other(r) == r.contact_id # contactId
  IN  SelectSeq(table, Other)

\* storeContactMemory on an open database: the three tables after it and
\* whether it returned (ok) or threw.
storeContactMemory(memory, cm, inter, facts) ==
  LET row == [ location_id  |-> memory.locationId,
               last_updated |-> memory.lastUpdated,
               metadata     |-> memory.metadata,
               preferences  |-> memory.preferences,
               sentiment    |-> memory.sentiment,
               created_at   |-> memory.metadata.firstSeen ]
      cm1 == [cm EXCEPT ![memory.contactId] = row]
      i1  == DeleteContact(inter, memory.contactId)
      f1  == DeleteContact(facts, memory.contactId)
      i2  == InsertRows(i1, [ k \in DOMAIN memory.interactions |->
                                InteractionRow(memory.contactId, memory.interactions[k]) ]
                            \o << >>)
      f2  == IF i2.ok
             THEN InsertRows(f1, [ k \in DOMAIN memory.keyFacts |->
                                     KeyFactRow(memory.contactId, memory.keyFacts[k]) ]
                                 \o << >>)
             ELSE [table |-> f1, ok |-> FALSE]
  IN  [ contact_memory |-> cm1, interactions |-> i2.table,
        key_facts |-> f2.table, ok |-> i2.ok /\ f2.ok ]

\* syncContactFromGHL from the point where the messages are there: the entry
\* it hands to storeContactMemory.
StoredInteractions(inter, today) ==
  IF shouldCompact(inter, today)
  THEN SubSeq(SortInteractions(inter), 1, compact(inter, today).compactedCount)
  ELSE inter

MemoryOf(contactId, inter, today, nanoBase) ==
  [ contactId    |-> contactId,
    locationId   |-> "loc",
    lastUpdated  |-> today,
    metadata     |-> [name |-> "name", source |-> "ghl",
                      firstSeen |-> today, lastSeen |-> today],
    interactions |-> StoredInteractions(inter, today),
    keyFacts     |-> extractKeyFacts(inter, nanoBase),
    preferences  |-> "{}",
    sentiment    |-> [ overall |-> calculateOverallSentiment(inter),
                       history |-> SentimentHistory(inter) ] ]

SyncMemory(contactId, messages, today, nanoBase) ==
  MemoryOf(contactId, indexMessages(messages), today, nanoBase)

\* SELECT * FROM <table>, without the WHERE clause.
SelectContact_NoWhere(table, contactId) == table

\* SELECT * FROM <table> WHERE contact_id = ?, in rowid order.
SelectContact(table, contactId) ==
  LET Mine(r) == r.contact_id = contactId
  IN  SelectSeq(table, Mine)

\* Stable sort of fact rows by confidence, highest first (ORDER BY confidence DESC).
RECURSIVE SortFactsFrom(_, _)
SortFactsFrom(s, d) ==
  IF d < 0 THEN << >>
  ELSE LET IsD(f) == f.confidence = d
       IN  SelectSeq(s, IsD) \o SortFactsFrom(s, d - 1)

\* A getContactMemory that finds no row.
getContactMemory_NeverFinds(contactId, cm, inter, facts) == NoRow

\* getContactMemory on an open database: NoRow for null, else the entry.
getContactMemory(contactId, cm, inter, facts) ==
  IF cm[contactId] = NoRow THEN NoRow
  ELSE LET row  == cm[contactId]
           irows == SortInteractions(SelectContact(inter, contactId))
           frows == SortFactsFrom(SelectContact(facts, contactId), 10)
       IN  [ contactId    |-> contactId,
             locationId   |-> row.location_id,
             lastUpdated  |-> row.last_updated,
             metadata     |-> row.metadata,
             interactions |-> [ k \in DOMAIN irows |->
                                 [ id          |-> irows[k].id,
                                   timestamp   |-> irows[k].timestamp,
                                   channel     |-> irows[k].channel,
                                   direction   |-> irows[k].direction,
                                   fullContent |-> IF irows[k].full_content = SqlNull
                                                   THEN "" ELSE irows[k].full_content,
                                   sentiment   |-> IF irows[k].sentiment = SqlNull
                                                   THEN "" ELSE irows[k].sentiment ] ],
             keyFacts     |-> [ k \in DOMAIN frows |->
                                 [ id |-> frows[k].id, fact |-> frows[k].fact,
                                   source |-> frows[k].source,
                                   confidence |-> frows[k].confidence,
                                   timestamp |-> frows[k].timestamp,
                                   category |-> frows[k].category ] ],
             preferences  |-> row.preferences,
             sentiment    |-> row.sentiment ]

\* An update that inserts the row it does not find.
UpdateLastUpdated_Upsert(cm, contactId, today) ==
  IF cm[contactId] = NoRow
  THEN [cm EXCEPT ![contactId] =
          [ location_id |-> "loc", last_updated |-> today,
            metadata |-> [name |-> "name", source |-> "ghl",
                          firstSeen |-> today, lastSeen |-> today],
            preferences |-> "{}",
            sentiment |-> [overall |-> "neutral", history |-> << >>],
            created_at |-> today ]]
  ELSE [cm EXCEPT ![contactId].last_updated = today]

\* UPDATE contact_memory SET last_updated = ? WHERE contact_id = ?
UpdateLastUpdated(cm, contactId, today) ==
  IF cm[contactId] = NoRow THEN cm
  ELSE [cm EXCEPT ![contactId].last_updated = today]

\* The interactions the bridge layer appends.
AppendIds == { << "n", 1 >>, << "m", 1 >> }

AppendInput(id, today) ==
  [ id |-> id, timestamp |-> today, channel |-> "phone", direction |-> "inbound",
    fullContent |-> "transcript", sentiment |-> "negative" ]

NoCall == [op |-> "none"]

Init ==
  /\ db = "null"
  /\ now = Day0
  /\ contact_memory = [c \in Contacts |-> NoRow]
  /\ interactions = << >>
  /\ key_facts = << >>
  /\ nano = 0
  /\ pc = [p \in Procs |-> "idle"]
  /\ arg = [p \in Procs |-> "none"]
  /\ ret = NoCall
  /\ calls = 0

CreateSchema_Drop(tables) == << [c \in Contacts |-> NoRow], << >>, << >> >>

\* CONTACT_MEMORY_SCHEMA: CREATE TABLE IF NOT EXISTS for the three tables,
\* which leaves a table that exists, and its rows, as it is.
CreateSchema(tables) == tables

\* initialize(): open the database unless it is open, and create the tables
\* that are missing.
Initialize ==
  /\ db' = "open"
  /\ contact_memory' = CreateSchema(<< contact_memory, interactions, key_facts >>)[1]
  /\ interactions' = CreateSchema(<< contact_memory, interactions, key_facts >>)[2]
  /\ key_facts' = CreateSchema(<< contact_memory, interactions, key_facts >>)[3]
  /\ ret' = NoCall
  /\ UNCHANGED << now, nano, pc, arg, calls >>

\* close(): close the database if it is open.
Close ==
  /\ db' = "null"
  /\ ret' = NoCall
  /\ UNCHANGED << now, contact_memory, interactions, key_facts, nano,
                  pc, arg, calls >>

\* A day passes.
Tick ==
  /\ now < Day0 + MaxTicks
  /\ now' = now + 1
  /\ ret' = NoCall
  /\ UNCHANGED << db, contact_memory, interactions, key_facts, nano,
                  pc, arg, calls >>

\* syncContactFromGHL up to where it is suspended: it awaits
\* buildContactContext and then getAllContactMessages, and reads or writes
\* nothing of the manager in between.
SyncStart(p, c) ==
  /\ pc[p] = "idle"
  /\ \A q \in Procs : q < p => pc[q] # "idle"
  /\ calls < MaxSyncs
  /\ calls' = calls + 1
  /\ IF NoDatabase(db)
     THEN /\ ret' = [op |-> "sync", contactId |-> c, status |-> "error",
                     error |-> NotInitialized]
          /\ UNCHANGED << pc, arg >>
     ELSE /\ pc' = [pc EXCEPT ![p] = "awaitMessages"]
          /\ arg' = [arg EXCEPT ![p] = c]
          /\ ret' = NoCall
  /\ UNCHANGED << db, now, contact_memory, interactions, key_facts, nano >>

\* getAllContactMessages resolves with what the source holds; the rest of
\* syncContactFromGHL runs without another suspension: index, extract facts,
\* compact if needed, storeContactMemory.
SyncStored(p, src, st) ==
  /\ contact_memory' = st.contact_memory
  /\ interactions' = st.interactions
  /\ key_facts' = st.key_facts
  /\ ret' = IF st.ok
            THEN [op |-> "sync", contactId |-> arg[p], status |-> "ok", src |-> src]
            ELSE [op |-> "sync", contactId |-> arg[p], status |-> "error",
                  error |-> PrimaryKey, src |-> src]

SyncStore(p, src, memory) ==
  /\ nano' = nano + Len(memory.keyFacts)
  /\ IF NoDatabase(db)
     THEN /\ ret' = [op |-> "sync", contactId |-> arg[p], status |-> "error",
                     error |-> NotInitialized]
          /\ UNCHANGED << contact_memory, interactions, key_facts >>
     ELSE SyncStored(p, src, storeContactMemory(memory, contact_memory,
                                                interactions, key_facts))

SyncIndex(p, src, messages) ==
  IF \E k \in DOMAIN messages : indexMessageThrows(messages[k])
  THEN /\ ret' = [op |-> "sync", contactId |-> arg[p], status |-> "error",
                  error |-> TypeError]
       /\ UNCHANGED << contact_memory, interactions, key_facts, nano >>
  ELSE SyncStore(p, src, SyncMemory(arg[p], messages, now, nano))

SyncMessagesFrom(p, sources) ==
  /\ pc[p] = "awaitMessages"
  /\ \E src \in sources : SyncIndex(p, src, getAllContactMessages(src, SyncLimit, now))
  /\ pc' = [pc EXCEPT ![p] = "idle"]
  /\ UNCHANGED << db, now, arg, calls >>

SyncMessages(p) == SyncMessagesFrom(p, SourceStates(arg[p]))

\* addInteraction(contactId, interaction).  Whether the INSERT of a row whose
\* contact has no entry fails depends on whether the SQLite build enforces
\* the FOREIGN KEY clause (fk).
AddInteraction(c, id, fk) ==
  /\ LET row == InteractionRow(c, AppendInput(id, now))
     IN  IF NoDatabase(db)
         THEN /\ ret' = [op |-> "append", contactId |-> c, status |-> "error",
                         error |-> NotInitialized, id |-> id]
              /\ UNCHANGED << contact_memory, interactions >>
         ELSE IF HasId(interactions, id)
         THEN /\ ret' = [op |-> "append", contactId |-> c, status |-> "error",
                         error |-> PrimaryKey, id |-> id]
              /\ UNCHANGED << contact_memory, interactions >>
         ELSE IF fk /\ contact_memory[c] = NoRow
         THEN /\ ret' = [op |-> "append", contactId |-> c, status |-> "error",
                         error |-> ForeignKey, id |-> id]
              /\ UNCHANGED << contact_memory, interactions >>
         ELSE /\ interactions' = Append(interactions, row)
              /\ contact_memory' = UpdateLastUpdated(contact_memory, c, now)
              /\ ret' = [op |-> "append", contactId |-> c, status |-> "ok", id |-> id]
  /\ UNCHANGED << db, now, key_facts, nano, pc, arg, calls >>

ReadResult(c, value) ==
  IF value = NoRow
  THEN [op |-> "read", contactId |-> c, status |-> "null"]
  ELSE [op |-> "read", contactId |-> c, status |-> "ok",
        interactions |-> Len(value.interactions),
        keyFacts |-> Len(value.keyFacts)]

\* getContactMemory(contactId)
GetContactMemory(c) ==
  /\ ret' = IF NoDatabase(db)
            THEN [op |-> "read", contactId |-> c, status |-> "error",
                  error |-> NotInitialized]
            ELSE ReadResult(c, getContactMemory(c, contact_memory, interactions,
                                                key_facts))
  /\ UNCHANGED << db, now, contact_memory, interactions, key_facts, nano,
                  pc, arg, calls >>

Next ==
  \/ Initialize
  \/ Close
  \/ \E p \in Procs, c \in Contacts : SyncStart(p, c)
  \/ \E p \in Procs : SyncMessages(p)
  \/ \E c \in Contacts, id \in AppendIds, fk \in BOOLEAN : AddInteraction(c, id, fk)
  \/ \E c \in Contacts : GetContactMemory(c)

\* The manager with two callers and two contacts, within one day.
Spec == Init /\ [][Next]_vars

\* One sync of one contact of an initialized manager, with every list of up
\* to MaxConvs conversations at the source: the inputs of indexMessages,
\* shouldCompact and compact.
InitCompact ==
  /\ db = "open"
  /\ now = Day0
  /\ contact_memory = [c \in Contacts |-> NoRow]
  /\ interactions = << >>
  /\ key_facts = << >>
  /\ nano = 0
  /\ pc = [p \in Procs |-> "idle"]
  /\ arg = [p \in Procs |-> "none"]
  /\ ret = NoCall
  /\ calls = MaxSyncs - 1

SyncWide == SyncMessagesFrom(1, WideSources)

NextCompact ==
  \/ Tick
  \/ SyncStart(1, "c1")
  \/ SyncWide
  \/ GetContactMemory("c1")

SpecCompact == InitCompact /\ [][NextCompact]_vars

\* ----------------------------------------------------------- retrieval.ts
\* Defaults of assembleContext and the caps of formatForAI (ages in days,
\* confidences in tenths).
DefaultMaxInteractions == 10
DefaultMaxAge == 30
DefaultMinConfidence == 5
FactCap == 10
FormatCap == 5
SearchLimit == 10
TrendWindow == 3             \* retrieval.ts: history.slice(0, 3)
GapDays == 14                \* retrieval.ts: daysSinceLastContact > 14
RelevanceMaxAge == 90        \* retrieval.ts: calculateRelevance, 90 days
ScoreUnit == 900             \* a relevance score of 1

\* const { name = default } = options: the default stands in for a field
\* the options do not have.
Option(options, name, default) ==
  IF name \in DOMAIN options THEN options[name] ELSE default

\* The options callers pass to getContactContext.
ContextOptions ==
  { << >>,
    [maxAge |-> 0], [maxAge |-> 10], [maxAge |-> 45],
    [channels |-> << >>], [channels |-> << "sms" >>],
    [channels |-> << "email", "whatsapp" >>],
    [maxInteractions |-> 0], [maxInteractions |-> 2], [maxInteractions |-> 50],
    [minConfidence |-> 6], [minConfidence |-> 7], [minConfidence |-> 9],
    [maxAge |-> 45, channels |-> << "sms", "phone" >>, maxInteractions |-> 2,
     minConfidence |-> 7] }

\* No age filter at all.
FilterAge_None(inter, age, today) == inter

\* interactions.filter(timestamp >= cutoff), only if (maxAge)
FilterAge(inter, age, today) ==
  LET Young(i) == i.timestamp >= today - age
  IN  IF age # 0 THEN SelectSeq(inter, Young) ELSE inter

\* interactions.filter(channels.includes(channel)), only if
\* (channels && channels.length > 0)
FilterChannels(inter, options) ==
  LET Listed(i) == \E k \in DOMAIN options.channels : options.channels[k] = i.channel
  IN  IF "channels" \in DOMAIN options /\ Len(options.channels) > 0
      THEN SelectSeq(inter, Listed) ELSE inter

\* No confidence filter at all.
FilterConfidence_None(facts, minConfidence) == facts

\* memory.keyFacts.filter((f) => f.confidence >= minConfidence)
FilterConfidence(facts, minConfidence) ==
  LET Sure(f) == f.confidence >= minConfidence
  IN  SelectSeq(facts, Sure)

NegativeTrend_AnyLength(history) ==
  LET recent == SubSeq(history, 1, Min(Len(history), TrendWindow))
      IsNeg(h) == h.sentiment = "negative"
  IN  IF CountSeq(recent, IsNeg) >= 2
      THEN << "Exercise extra care - recent negative sentiment detected" >>
      ELSE << >>

\* Check sentiment trend: with a history of 3 or more, 2 or more negative
\* among its first 3.
NegativeTrend(history) ==
  IF Len(history) >= TrendWindow
  THEN LET recent == SubSeq(history, 1, TrendWindow)
           IsNeg(h) == h.sentiment = "negative"
       IN  IF CountSeq(recent, IsNeg) >= 2
           THEN << "Exercise extra care - recent negative sentiment detected" >>
           ELSE << >>
  ELSE << >>

\* Check for long gaps: the whole days since the first of the interactions
\* of the context.
LongGap(inter, today) ==
  IF Len(inter) > 0 /\ today - inter[1].timestamp > GapDays
  THEN << "It has been a while since last contact - acknowledge the gap" >>
  ELSE << >>

\* generateRecommendations(memory, interactions, keyFacts): of the
\* interactions and the facts of the context.
generateRecommendations(memory, inter, keyFacts, today) ==
  LET OfCategory(category) ==
        LET Is(f) == f.category = category IN SelectSeq(keyFacts, Is)
      replace(text, word) ==
        IF includes(text, word)
        THEN LET i == Least({ j \in 1..Len(text) : StartsAt(text, j, word) })
             IN  SubSeq(text, 1, i - 1) \o SubSeq(text, i + Len(word), Len(text))
        ELSE text
      Citing(facts, lead, prefix) ==
        IF facts = << >> THEN << >>
        ELSE << lead \o replace(facts[1].fact, prefix) >>
  IN  Citing(OfCategory("commitment"), "Reference previous commitments: ",
             "Commitment: ")
        \o (IF OfCategory("objection") = << >> THEN << >>
            ELSE << "Address previously mentioned concerns" >>)
        \o Citing(OfCategory("preference"), "Align with preferences: ",
                  "Preference: ")
        \o NegativeTrend(memory.sentiment.history)
        \o LongGap(inter, today)

\* The context returned, of the interactions and facts that passed the
\* filters; the text of its summary is left out.
ContextOf(memory, inter, keyFacts, today) ==
  [ contactId          |-> memory.contactId,
    recentInteractions |-> inter,
    keyFacts           |-> keyFacts,
    preferences        |-> memory.preferences,
    sentiment          |-> memory.sentiment,
    recommendations    |-> generateRecommendations(memory, inter,
                                                   keyFacts, today) ]

assembleContext(memory, options, today) ==
  LET maxInter == Option(options, "maxInteractions", DefaultMaxInteractions)
      maxAge_  == Option(options, "maxAge", DefaultMaxAge)
      minConf  == Option(options, "minConfidence", DefaultMinConfidence)
      filtered == FilterChannels(FilterAge(memory.interactions, maxAge_, today),
                                 options)
      sorted   == SortInteractions(filtered)
      facts    == SortFactsFrom(FilterConfidence(memory.keyFacts, minConf), 10)
  IN  ContextOf(memory, SubSeq(sorted, 1, Min(Len(sorted), maxInter)),
                SubSeq(facts, 1, Min(Len(facts), FactCap)), today)

\* calculateRelevance(interaction, currentTopics), in units of 1/900 (of
\* which every term is a whole number for up to 3 current topics): recency
\* 0.5 * (1 - min(age / maxAge, 1)), topic overlap 0.3 * (overlap / length),
\* and 0.2 for a positive, 0.1 for a negative sentiment.
calculateRelevance(interaction, currentTopics, today) ==
  LET age == today - interaction.timestamp
      Current(t) == \E k \in DOMAIN currentTopics : currentTopics[k] = t
      overlap == Len(SelectSeq(interaction.topics, Current))
  IN  (ScoreUnit * 5 * (RelevanceMaxAge - Min(age, RelevanceMaxAge)))
          \div (10 * RelevanceMaxAge)
        + (IF Len(currentTopics) > 0 /\ Len(interaction.topics) > 0
           THEN (ScoreUnit * 3 * overlap) \div (10 * Len(currentTopics))
           ELSE 0)
        + (IF interaction.sentiment = "positive" THEN (ScoreUnit * 2) \div 10 ELSE 0)
        + (IF interaction.sentiment = "negative" THEN ScoreUnit \div 10 ELSE 0)

\* What formatForAI lists of a context: the first 5 (verbose: 10) of its
\* interactions and of its facts.
formatForAI(context, verbose) ==
  LET cap == IF verbose THEN 2 * FormatCap ELSE FormatCap
  IN  [ interactions |-> SubSeq(context.recentInteractions, 1,
                                Min(Len(context.recentInteractions), cap)),
        keyFacts     |-> SubSeq(context.keyFacts, 1,
                                Min(Len(context.keyFacts), cap)) ]


\* getContactContext(contactId, options)
GetContactContext(c, options) ==
  /\ ret' = IF NoDatabase(db)
            THEN [op |-> "context", contactId |-> c, status |-> "error",
                  error |-> NotInitialized]
            ELSE LET memory == getContactMemory(c, contact_memory, interactions,
                                                key_facts)
                 IN  IF memory = NoRow
                     THEN [op |-> "context", contactId |-> c, status |-> "null"]
                     ELSE [op |-> "context", contactId |-> c, status |-> "ok",
                           options |-> options,
                           context |-> assembleContext(memory, options, now)]
  /\ UNCHANGED << db, now, contact_memory, interactions, key_facts, nano,
                  pc, arg, calls >>

\* formatContextForAI(contactId, verbose): the context of the default
\* options, formatted.
FormatContextForAI(c, verbose) ==
  /\ ret' = IF NoDatabase(db)
            THEN [op |-> "format", contactId |-> c, status |-> "error",
                  error |-> NotInitialized]
            ELSE LET memory == getContactMemory(c, contact_memory, interactions,
                                                key_facts)
                 IN  IF memory = NoRow
                     THEN [op |-> "format", contactId |-> c, status |-> "null"]
                     ELSE [op |-> "format", contactId |-> c, status |-> "ok",
                           verbose |-> verbose,
                           text |-> formatForAI(
                                      assembleContext(memory, << >>, now), verbose)]
  /\ UNCHANGED << db, now, contact_memory, interactions, key_facts, nano,
                  pc, arg, calls >>

\* The text of a metadata column, as far as a query of letters can match it.
MetadataText(metadata) ==
  "{name:" \o metadata.name \o ",tags:[],source:" \o metadata.source \o "}"

Queries == { "name", "GHL", "nobody" }

\* searchContacts(query): the entries whose metadata is LIKE %query%; the
\* model has fewer contacts than the default limit of 10.
SearchContacts(query) ==
  /\ ret' = IF NoDatabase(db)
            THEN [op |-> "search", query |-> query, status |-> "error",
                  error |-> NotInitialized]
            ELSE [op |-> "search", query |-> query, status |-> "ok",
                  contacts |->
                    { c \in Contacts :
                        /\ contact_memory[c] # NoRow
                        /\ includes(toLowerCase(MetadataText(contact_memory[c].metadata)),
                                    toLowerCase(query)) }]
  /\ UNCHANGED << db, now, contact_memory, interactions, key_facts, nano,
                  pc, arg, calls >>

\* What the source may hold for a contact whose context is read.
ContextSources ==
  { [convs |-> cv, base |-> 0] :
      cv \in { << Mixed >>, << Busy, Mixed >>, << Broken >> } }

\* A manager as constructed: without a database handle (the config form), or
\* with the handle of a database that has the schema (the legacy form).
InitContext ==
  /\ db \in { "null", "given" }
  /\ now = Day0
  /\ contact_memory = [ c \in Contacts |-> NoRow ]
  /\ interactions = << >>
  /\ key_facts = << >>
  /\ nano = 0
  /\ pc = [ p \in Procs |-> "idle" ]
  /\ arg = [ p \in Procs |-> "none" ]
  /\ ret = NoCall
  /\ calls = 0

NextContext ==
  \/ Initialize
  \/ Close
  \/ Tick
  \/ SyncStart(1, "c1")
  \/ SyncMessagesFrom(1, ContextSources)
  \/ \E c \in Contacts, fk \in BOOLEAN : AddInteraction(c, << "n", 1 >>, fk)
  \/ \E c \in Contacts : GetContactMemory(c)
  \/ \E c \in Contacts, options \in ContextOptions : GetContactContext(c, options)
  \/ \E c \in Contacts, verbose \in BOOLEAN : FormatContextForAI(c, verbose)
  \/ \E query \in Queries : SearchContacts(query)

\* One caller that syncs one contact, appends to both and reads both, while
\* days pass.
SpecContext == InitContext /\ [][NextContext]_vars

\* ------------------------------------------------- the indexer on its own
\* Bodies a message may have: a lead, a trigger, a clause and an ending.
MaxLists == 11         \* longest run of one sentiment in a list of interactions

\* Message bodies: a lead, a trigger, a clause and an end.
IndexBodies ==
  { a \o b \o c \o d :
      a \in { "", "Sure. ", "Great, " },
      b \in { "", "I'll ", "I WILL ", "we'll ", "let me ", "I need " },
      c \in { "call you back tomorrow at 3:00pm", "check",
              "send the quote for $1,200.50 on 12/05",
              "meet Monday at 9:30 am" },
      d \in { "", ".", ", thanks!", ". I want it by friday", " but it is bad" } }
    \cup { "", Undefined }

\* indexMessages and extractKeyFacts on one message, the caller's argument.
IndexMessages ==
  /\ arg[1].op = "index"
  /\ ret.op = "none"
  /\ LET message == [ id |-> << "m", 1 >>, type |-> arg[1].type,
                      body |-> arg[1].body,
                      direction |-> "inbound", dateAdded |-> now ]
     IN  ret' = IF indexMessageThrows(message)
                THEN [op |-> "index", status |-> "error", error |-> TypeError]
                ELSE LET inter == indexMessages(<< message >>)
                     IN  [op |-> "index", status |-> "ok",
                          interactions |-> inter,
                          keyFacts |-> extractKeyFacts(inter, nano)]
  /\ UNCHANGED << db, now, contact_memory, interactions, key_facts, nano,
                  pc, arg, calls >>

\* Lists of interactions, newest first, by their sentiments: a of x, then b
\* of y, then c of z ("" is an interaction without a sentiment).
SentimentLists ==
  { [ k \in 1..a |-> x ] \o [ k \in 1..b |-> y ] \o [ k \in 1..c |-> z ] :
      x, y, z \in { "positive", "neutral", "negative", "" },
      a \in 0..MaxLists, b \in 0..2, c \in 0..2 }

\* calculateOverallSentiment on the interactions of the caller's argument.
CalculateOverallSentiment ==
  /\ arg[1].op = "overall"
  /\ ret.op = "none"
  /\ LET list == arg[1].sentiments
         inter == [ k \in DOMAIN list |->
                     [ id |-> << "m", k >>, timestamp |-> now - k, channel |-> "sms",
                       direction |-> "inbound", summary |-> "ok",
                       fullContent |-> "ok", entities |-> << >>,
                       sentiment |-> list[k], topics |-> << >> ] ]
     IN  ret' = [op |-> "overall", overall |-> calculateOverallSentiment(inter)]
  /\ UNCHANGED << db, now, contact_memory, interactions, key_facts, nano,
                  pc, arg, calls >>

Reversed(list) == [ k \in 1..Len(list) |-> list[Len(list) + 1 - k] ]

\* compact on the list of the caller's argument: what it returns and the
\* caller's list after the call, which compact has sorted in place.
Compact ==
  /\ arg[1].op = "compact"
  /\ ret.op = "none"
  /\ ret' = [op |-> "compact",
             result |-> compact(arg[1].interactions, now),
             list |-> SortInteractions(arg[1].interactions)]
  /\ UNCHANGED << db, now, contact_memory, interactions, key_facts, nano,
                  pc, arg, calls >>

\* assembleContext on the entry and the options of the caller's argument.
AssembleContext ==
  /\ arg[1].op = "assemble"
  /\ ret.op = "none"
  /\ ret' = [op |-> "assemble",
             context |-> assembleContext(arg[1].memory, arg[1].options, now)]
  /\ UNCHANGED << db, now, contact_memory, interactions, key_facts, nano,
                  pc, arg, calls >>

\* calculateRelevance on the interaction and the topics of the caller's
\* argument.
CalculateRelevance ==
  /\ arg[1].op = "relevance"
  /\ ret.op = "none"
  /\ ret' = [op |-> "relevance",
             score |-> calculateRelevance(arg[1].interaction,
                                          arg[1].currentTopics, now)]
  /\ UNCHANGED << db, now, contact_memory, interactions, key_facts, nano,
                  pc, arg, calls >>

\* The argument is a message (its type and body), a list of sentiments, a
\* list of interactions, newest first or oldest first, an entry (of up to
\* 4 interactions a day apart, the newest of an age in days) with options,
\* or an interaction (of an age in days, in the future when negative) with
\* the current topics.
IndexArgs ==
  { [op |-> "index", type |-> "SMS", body |-> body] : body \in IndexBodies }
    \cup { [op |-> "index", type |-> type, body |-> body] :
             type \in { "SMS", "Email", "WhatsApp", "Live_Chat", "Call" },
             body \in { "thank you", Undefined } }
    \cup { [op |-> "overall", sentiments |-> list] : list \in SentimentLists }
    \cup { [op |-> "compact",
            interactions |-> IF reversed THEN Reversed(list) ELSE list] :
             list \in { indexMessages(getAllContactMessages(src, SyncLimit, Day0)) :
                          src \in WideSources },
             reversed \in BOOLEAN }
    \cup { [op |-> "assemble", options |-> options,
            memory |->
              MemoryOf("c1",
                       [ k \in DOMAIN list |->
                          [ id |-> << "m", k >>, timestamp |-> Day0 - age - (k - 1),
                            channel |-> "sms", direction |-> "inbound",
                            summary |-> "ok", fullContent |-> "ok",
                            entities |-> << >>, sentiment |-> list[k],
                            topics |-> << >> ] ],
                       Day0, 0)] :
             list \in UNION { [ 1..n -> { "positive", "neutral", "negative" } ] :
                                n \in 0..4 },
             age \in { 0, 14, 15, 30, 31, 45 },
             options \in { << >>, [maxAge |-> 0] } }
    \cup { [op |-> "relevance", currentTopics |-> currentTopics,
            interaction |->
              [ id |-> << "m", 1 >>, timestamp |-> Day0 - age, channel |-> "sms",
                direction |-> "inbound", summary |-> "ok", fullContent |-> "ok",
                entities |-> << >>, sentiment |-> sentiment, topics |-> topics ]] :
             age \in { -90, -1, 0, 45, 90, 120 },
             sentiment \in { "positive", "neutral", "negative", "" },
             topics \in UNION { [ 1..n -> { "pricing", "scheduling" } ] :
                                  n \in 0..2 },
             currentTopics \in UNION { [ 1..n -> { "pricing", "scheduling" } ] :
                                         n \in 0..2 } }

InitIndex ==
  /\ db = "null"
  /\ now = Day0
  /\ contact_memory = [ c \in Contacts |-> NoRow ]
  /\ interactions = << >>
  /\ key_facts = << >>
  /\ nano = 0
  /\ pc = [ p \in Procs |-> "idle" ]
  /\ arg \in { << a, "none" >> : a \in IndexArgs }
  /\ ret = NoCall
  /\ calls = 0

NextIndex ==
  \/ IndexMessages
  \/ CalculateOverallSentiment
  \/ Compact
  \/ AssembleContext
  \/ CalculateRelevance

\* The indexer, the sentiment aggregate, compact, assembleContext and
\* calculateRelevance as functions of their inputs.
SpecIndex == InitIndex /\ [][NextIndex]_vars

\* ------------------------------------------------------------ properties
RowsIn(table, c) == LET Mine(r) == r.contact_id = c IN SelectSeq(table, Mine)

\* The latest step finished a syncContactFromGHL that returned normally.
SyncDone == ret.op = "sync" /\ ret.status = "ok"

\* The latest step finished a syncContactFromGHL that got as far as
\* storeContactMemory on an open database.
SyncWrote == ret.op = "sync" /\ "src" \in DOMAIN ret

\* The interactions the sync that just finished indexed, and the entry it
\* handed to storeContactMemory (no day has passed since).
LastIndexed == indexMessages(getAllContactMessages(ret.src, SyncLimit, now))
LastMemory ==
  LET messages == getAllContactMessages(ret.src, SyncLimit, now)
      facts    == Len(extractKeyFacts(indexMessages(messages), 0))
  IN  SyncMemory(ret.contactId, messages, now, nano - facts)

InteractionRows(c, inter) ==
  [ k \in DOMAIN inter |-> InteractionRow(c, inter[k]) ] \o << >>
KeyFactRows(c, facts) ==
  [ k \in DOMAIN facts |-> KeyFactRow(c, facts[k]) ] \o << >>
SansId(rows) ==
  [ k \in DOMAIN rows |-> [rows[k] EXCEPT !.id = << >>] ] \o << >>

\* Contact c holds exactly what a sync of source state src fetched on day t
\* writes (fact ids aside).
StoredAs(c, src, t) ==
  LET memory == SyncMemory(c, getAllContactMessages(src, SyncLimit, t), t, 0)
  IN  /\ RowsIn(interactions, c) = InteractionRows(c, memory.interactions)
      /\ SansId(RowsIn(key_facts, c)) = SansId(KeyFactRows(c, memory.keyFacts))

\* C1: after a syncContactFromGHL has completed, getContactMemory returns at
\* most 100 interactions for the contact.
C1_HardCap ==
  SyncDone =>
    Len(getContactMemory(ret.contactId, contact_memory, interactions,
                         key_facts).interactions) <= maxInteractions

\* C2: a syncContactFromGHL that fails leaves the entry row, the interaction
\* rows and the fact rows as they were before the call.
C2_NoPartialFailure ==
  [][ (ret'.op = "sync" /\ ret'.status = "error")
        => UNCHANGED << contact_memory, interactions, key_facts >> ]_vars

\* C3: once two overlapping syncContactFromGHL calls on the same contact have
\* both finished, the contact's interactions and facts are exactly the set
\* one of the calls wrote, never a mixture or a partly reinserted set.
C3_AtomicWrite ==
  ( /\ SyncWrote
    /\ \A p \in Procs : pc[p] = "idle" /\ arg[p] = ret.contactId )
  => \E src \in SourceStates(ret.contactId) : StoredAs(ret.contactId, src, now)

\* C4: after a syncContactFromGHL of a contact has completed, the contact's
\* interaction rows and fact rows are exactly those of the entry derived from
\* the fetched batch; nothing of an earlier sync or addInteraction remains.
C4_WriteSupersedes ==
  SyncDone =>
    /\ RowsIn(interactions, ret.contactId)
         = InteractionRows(ret.contactId, LastMemory.interactions)
    /\ RowsIn(key_facts, ret.contactId)
         = KeyFactRows(ret.contactId, LastMemory.keyFacts)

\* C4 witness: the second of two overlapping syncs of c1 has completed with
\* the two-message batch after facts of another batch had been extracted.
C4_Witness ==
  /\ SyncDone
  /\ ret.contactId = "c1"
  /\ ret.src.convs = << Few >>
  /\ arg[2] = "c1"
  /\ nano > 1
  /\ Len(RowsIn(interactions, "c1")) = 2

\* C5: a getContactMemory that directly follows a completed sync of the same
\* contact returns as many interactions and as many key facts as the entry
\* that was written has.
C5_RoundTrip ==
  [][ (SyncDone /\ ret'.op = "read" /\ ret'.contactId = ret.contactId)
        => /\ ret'.status = "ok"
           /\ ret'.interactions = Len(LastMemory.interactions)
           /\ ret'.keyFacts = Len(LastMemory.keyFacts) ]_vars

\* C5 witness: getContactMemory has returned an entry of 102 interactions for
\* c1 while c2 has rows of its own.
C5_Witness ==
  /\ ret.op = "read"
  /\ ret.status = "ok"
  /\ ret.contactId = "c1"
  /\ ret.interactions = 102
  /\ ret.keyFacts > 0
  /\ RowsIn(interactions, "c2") # << >>

\* The sync that just finished ran compact on what it had indexed.
Compacted == SyncDone /\ shouldCompact(LastIndexed, now)

\* An interaction or interaction row that is older than 90 days now.
PastCeiling(i) == now - i.timestamp > maxAge

\* C6 as stated: when compact has run, neither its final list nor the rows
\* the sync stored hold an interaction older than 90 days.
C6_NoneOlderThanCeiling ==
  Compacted =>
    /\ \A k \in DOMAIN CompactLocals(LastIndexed, now).final :
         ~ PastCeiling(CompactLocals(LastIndexed, now).final[k])
    /\ \A k \in DOMAIN RowsIn(interactions, ret.contactId) :
         ~ PastCeiling(RowsIn(interactions, ret.contactId)[k])

\* C6, amended: when compact has run, every interaction older than 90 days
\* in its final list, and every such row the sync stored, is one of the 20
\* newest interactions of the input, at its place in the sorted input.
C6_CeilingBelowFloor ==
  Compacted =>
    LET l    == CompactLocals(LastIndexed, now)
        rows == RowsIn(interactions, ret.contactId)
    IN  /\ \A k \in DOMAIN l.final :
             PastCeiling(l.final[k])
               => k <= RecencyFloor /\ l.final[k] = l.sorted[k]
        /\ \A k \in DOMAIN rows :
             PastCeiling(rows[k])
               => /\ k <= RecencyFloor
                  /\ rows[k] = InteractionRow(ret.contactId, l.sorted[k])

\* C6 witness: compact has run on a list that holds interactions older than
\* 90 days behind its 20 newest, and more than 20 rows were stored.
C6_Witness ==
  /\ Compacted
  /\ \E k \in (RecencyFloor + 1)..Len(LastIndexed) :
       PastCeiling(SortInteractions(LastIndexed)[k])
  /\ Len(RowsIn(interactions, ret.contactId)) > RecencyFloor

\* C7: when compact has run, the 20 newest interactions of the input are the
\* first 20 of its final list and the first 20 rows stored, each as it was
\* indexed, and none of them is in old.
C7_RecencyFloor ==
  Compacted =>
    LET l    == CompactLocals(LastIndexed, now)
        rows == RowsIn(interactions, ret.contactId)
    IN  /\ Len(l.final) >= RecencyFloor
        /\ Len(rows) >= RecencyFloor
        /\ \A k \in 1..RecencyFloor :
             /\ l.final[k] = l.sorted[k]
             /\ rows[k] = InteractionRow(ret.contactId, l.sorted[k])
             /\ \A j \in DOMAIN l.old : l.old[j].id # l.sorted[k].id

\* C7 witness: compact has run on a list whose 20 newest interactions are
\* all older than 90 days.
C7_Witness ==
  /\ Compacted
  /\ PastCeiling(SortInteractions(LastIndexed)[1])
  /\ Len(RowsIn(interactions, ret.contactId)) = RecencyFloor

\* Number of interactions older than 30 days now.
OldCount(inter) ==
  LET IsOld(i) == now - i.timestamp > summaryThreshold
  IN  CountSeq(inter, IsOld)

\* C8: shouldCompact is true only if there are at least 100 interactions and
\* more than 20 of them are older than 30 days; with fewer than 100, or with
\* none older than 30 days, the sync stores the interactions as indexed.
C8_ShouldCompactOnlyIf ==
  SyncDone =>
    /\ shouldCompact(LastIndexed, now)
         => Len(LastIndexed) >= maxInteractions /\ OldCount(LastIndexed) > OldTrigger
    /\ (Len(LastIndexed) < maxInteractions \/ OldCount(LastIndexed) = 0)
         => /\ ~ shouldCompact(LastIndexed, now)
            /\ RowsIn(interactions, ret.contactId)
                 = InteractionRows(ret.contactId, LastIndexed)

\* C8 witness: a sync has stored fewer than 100 interactions of which more
\* than 20 are older than 30 days.
C8_Witness ==
  /\ SyncDone
  /\ Len(LastIndexed) < maxInteractions
  /\ OldCount(LastIndexed) > OldTrigger
  /\ Len(RowsIn(interactions, ret.contactId)) = Len(LastIndexed)

\* The batch of the scenario: 150 interactions, 100 of them 40 to 100 days old.
Scenario ==
  LET InRange(i) == now - i.timestamp >= 40 /\ now - i.timestamp <= 100
  IN  /\ SyncDone
      /\ Len(LastIndexed) = 150
      /\ CountSeq(LastIndexed, InRange) = 100

\* C9 as stated: for a batch of 150 interactions of which 100 are 40 to 100
\* days old, the sync compacts, stores at most 100 rows and stores none
\* older than 90 days.
C9_Scenario ==
  Scenario =>
    /\ shouldCompact(LastIndexed, now)
    /\ Len(RowsIn(interactions, ret.contactId)) <= maxInteractions
    /\ \A k \in DOMAIN RowsIn(interactions, ret.contactId) :
         ~ PastCeiling(RowsIn(interactions, ret.contactId)[k])

\* C9, amended: for such a batch whose 20 newest interactions are not older
\* than 90 days, the sync compacts, stores at most 100 rows and stores none
\* older than 90 days.
C9_ScenarioFreshFloor ==
  ( /\ Scenario
    /\ \A k \in 1..RecencyFloor : ~ PastCeiling(SortInteractions(LastIndexed)[k]) )
  => /\ shouldCompact(LastIndexed, now)
     /\ Len(RowsIn(interactions, ret.contactId)) <= maxInteractions
     /\ \A k \in DOMAIN RowsIn(interactions, ret.contactId) :
          ~ PastCeiling(RowsIn(interactions, ret.contactId)[k])

\* C9 witness: such a batch, holding interactions older than 90 days, has
\* been synced and more than 20 rows were stored.
C9_Witness ==
  /\ Scenario
  /\ \A k \in 1..RecencyFloor : ~ PastCeiling(SortInteractions(LastIndexed)[k])
  /\ \E k \in DOMAIN LastIndexed : PastCeiling(LastIndexed[k])
  /\ Len(RowsIn(interactions, ret.contactId)) > RecencyFloor

\* C10: addInteraction on an open database, for a contact that has an entry
\* and with an id the contact does not have yet, adds exactly one interaction
\* row for the contact, sets last_updated to the current time and leaves the
\* contact's facts, sentiment and earlier interaction rows as they were.
C10_AppendAddsOne ==
  [][ \A c \in Contacts :
        ( /\ ret'.op = "append"
          /\ ret'.contactId = c
          /\ db = "open"
          /\ contact_memory[c] # NoRow
          /\ ~ HasId(RowsIn(interactions, c), ret'.id) )
        => /\ Len(RowsIn(interactions', c)) = Len(RowsIn(interactions, c)) + 1
           /\ SubSeq(RowsIn(interactions', c), 1, Len(RowsIn(interactions, c)))
                = RowsIn(interactions, c)
           /\ contact_memory'[c].last_updated = now
           /\ contact_memory'[c].sentiment = contact_memory[c].sentiment
           /\ key_facts' = key_facts ]_vars

\* The indexer was applied to a message of this body and returned.
Indexed(body) ==
  /\ ret.op = "index"
  /\ arg[1].body = body

\* C13: indexing a message whose body is missing does not throw: it yields
\* one interaction with no entities, no topics and neutral sentiment, as the
\* empty body does.
C13_MissingBodyIsEmpty ==
  Indexed(Undefined) =>
    /\ ret.status = "ok"
    /\ Len(ret.interactions) = 1
    /\ ret.interactions[1].entities = << >>
    /\ ret.interactions[1].topics = << >>
    /\ ret.interactions[1].sentiment = "neutral"

\* The sentiments calculateOverallSentiment looks at: those of the
\* SentimentWindow newest interactions.
Window == SubSeq(arg[1].sentiments, 1, Min(Len(arg[1].sentiments), SentimentWindow))
Votes(x) == Cardinality({ k \in DOMAIN Window : Window[k] = x })

\* C14 as claimed: overall is the most frequent of positive, neutral and
\* negative among the 10 newest interactions, ties yielding neutral.
C14_MostFrequent ==
  ret.op = "overall" =>
    ret.overall =
      IF Votes("positive") > Votes("neutral") /\ Votes("positive") > Votes("negative")
      THEN "positive"
      ELSE IF Votes("negative") > Votes("neutral")
                /\ Votes("negative") > Votes("positive")
      THEN "negative" ELSE "neutral"

\* C14 amended: overall is positive when the positive interactions among the
\* 10 newest outnumber the negative ones, negative when the negative ones
\* outnumber the positive ones, and neutral otherwise; neutral interactions
\* do not vote.
C14_PositiveAgainstNegative ==
  ret.op = "overall" =>
    /\ ret.overall = "positive" <=> Votes("positive") > Votes("negative")
    /\ ret.overall = "negative" <=> Votes("negative") > Votes("positive")
    /\ ret.overall = "neutral" <=> Votes("positive") = Votes("negative")

\* C14 witness: the aggregate of a list of more than 10 interactions, in
\* which neutral is the most frequent sentiment of the 10 newest and positive
\* and negative differ, has been computed.
C14_Witness ==
  /\ ret.op = "overall"
  /\ Len(arg[1].sentiments) > SentimentWindow
  /\ Votes("neutral") > Votes("positive")
  /\ Votes("positive") > Votes("negative")
  /\ Votes("negative") > 0
  /\ ret.overall = "positive"

ScenarioBody == "I'll call you back tomorrow at 3:00pm, thanks!"

\* The commitment facts among the facts extracted.
Commitments ==
  LET IsCommitment(f) == f.category = "commitment"
  IN  SelectSeq(ret.keyFacts, IsCommitment)

\* The scenario message on channel sms yields one interaction with channel
\* sms, sentiment positive, a date entity "tomorrow" and a time entity
\* "3:00pm", and exactly one commitment fact, of the given text.
ScenarioIndexedWith(fact) ==
  (Indexed(ScenarioBody) /\ arg[1].type = "SMS") =>
    /\ ret.status = "ok"
    /\ Len(ret.interactions) = 1
    /\ ret.interactions[1].channel = "sms"
    /\ ret.interactions[1].sentiment = "positive"
    /\ \E k \in DOMAIN ret.interactions[1].entities :
         /\ ret.interactions[1].entities[k].type = "date"
         /\ ret.interactions[1].entities[k].value = "tomorrow"
    /\ \E k \in DOMAIN ret.interactions[1].entities :
         /\ ret.interactions[1].entities[k].type = "time"
         /\ ret.interactions[1].entities[k].value = "3:00pm"
    /\ Len(Commitments) = 1
    /\ Commitments[1].fact = fact

\* C19 as claimed: the commitment fact of the scenario message is
\* "Commitment: call you back tomorrow at 3:00pm".
C19_ScenarioClause ==
  ScenarioIndexedWith("Commitment: call you back tomorrow at 3:00pm")

\* C19 amended: indexing the scenario message on channel sms yields one
\* interaction with channel sms, sentiment positive, entities including the
\* date "tomorrow" and the time "3:00pm", and exactly one commitment fact,
\* whose text runs to the end of the message:
\* "Commitment: call you back tomorrow at 3:00pm, thanks!".
C19_ScenarioToEnd ==
  ScenarioIndexedWith("Commitment: call you back tomorrow at 3:00pm, thanks!")

\* C19 witness: the scenario message has been indexed on channel sms.
C19_Witness ==
  /\ Indexed(ScenarioBody)
  /\ arg[1].type = "SMS"
  /\ ret.status = "ok"
  /\ Len(ret.keyFacts) = 1

\* In this step a store-backed operation has returned or thrown.
Returned ==
  ret'.op \in {"sync", "read", "context", "format", "append", "search"}

\* In this step a store-backed operation was invoked and has returned or
\* thrown (the completion of a sync that was awaiting the source is not an
\* invocation).
Invocation == Returned /\ pc' = pc

FailsNotInitialized ==
  /\ ret'.status = "error"
  /\ ret'.error = NotInitialized
  /\ UNCHANGED << contact_memory, interactions, key_facts >>

\* C11 as claimed: an operation invoked on a manager on which initialize has
\* not been called since it was constructed or closed fails with "Database
\* not initialized" and changes nothing; on an initialized manager no
\* operation fails with that error.
C11_UninitializedFails ==
  [][ /\ (db # "open" /\ Invocation) => FailsNotInitialized
      /\ (db = "open" /\ Returned)
           => ~ (ret'.status = "error" /\ ret'.error = NotInitialized) ]_vars

\* C11 amended: an operation invoked on a manager that holds no database
\* handle (constructed without one and not initialized, or closed) fails
\* with "Database not initialized" and changes nothing; on an initialized
\* manager no operation fails with that error.
C11_NoHandleFails ==
  [][ /\ (db = "null" /\ Invocation) => FailsNotInitialized
      /\ (db = "open" /\ Returned)
           => ~ (ret'.status = "error" /\ ret'.error = NotInitialized) ]_vars

\* C11 witness: getContactContext has failed with "Database not initialized"
\* on a manager that was closed after a sync had stored an entry.
C11_Witness ==
  /\ db = "null"
  /\ contact_memory["c1"] # NoRow
  /\ ret.op = "context"
  /\ ret.status = "error"
  /\ ret.error = NotInitialized

\* C12: on an initialized store, getContactMemory, getContactContext and
\* formatContextForAI return null, and no error, for a contact that has no
\* entry, and a value for a contact that has one; a sync that completes
\* leaves its contact with an entry.
C12_NotFoundIsNull ==
  [][ /\ \A c \in Contacts :
           ( /\ db = "open"
             /\ ret'.op \in {"read", "context", "format"}
             /\ ret'.contactId = c )
           => /\ contact_memory[c] = NoRow => ret'.status = "null"
              /\ contact_memory[c] # NoRow => ret'.status = "ok"
      /\ (ret'.op = "sync" /\ ret'.status = "ok")
           => contact_memory'[ret'.contactId] # NoRow ]_vars

\* C12 witness: formatContextForAI has returned null for c2, which has no
\* entry, on the initialized store in which c1 has been synced.
C12_Witness ==
  /\ db = "open"
  /\ contact_memory["c1"] # NoRow
  /\ contact_memory["c2"] = NoRow
  /\ ret.op = "format"
  /\ ret.contactId = "c2"
  /\ ret.status = "null"

\* getContactContext has returned a context.
ContextDone == ret.op = "context" /\ ret.status = "ok"

\* The entry the context was assembled from.
ContextEntry ==
  getContactMemory(ret.contactId, contact_memory, interactions, key_facts)

\* The interaction is in the channel allow-list of the call.
InChannels(i) ==
  \E k \in DOMAIN ret.options.channels : ret.options.channels[k] = i.channel

\* The interaction is not older than the maxAge of the call.
InAge(i) ==
  now - i.timestamp <= Option(ret.options, "maxAge", DefaultMaxAge)

\* recent holds only interactions of the entry that pass, newest first, at
\* most maxInteractions of them, and no passing interaction of the entry
\* that it leaves out is newer than one it holds.
NewestThatPass(recent, Pass(_)) ==
  /\ \A k \in DOMAIN recent :
       /\ \E j \in DOMAIN ContextEntry.interactions :
            ContextEntry.interactions[j] = recent[k]
       /\ Pass(recent[k])
       /\ \A j \in 1..(k - 1) :
            /\ recent[j].timestamp >= recent[k].timestamp
            /\ recent[j].id # recent[k].id
  /\ Len(recent) <= Option(ret.options, "maxInteractions", DefaultMaxInteractions)
  /\ \A j \in DOMAIN ContextEntry.interactions :
       LET i == ContextEntry.interactions[j]
       IN  (Pass(i) /\ \A k \in DOMAIN recent : recent[k].id # i.id)
             => /\ Len(recent) = Option(ret.options, "maxInteractions",
                                        DefaultMaxInteractions)
                /\ \A k \in DOMAIN recent : recent[k].timestamp >= i.timestamp

\* C15 as claimed: recentInteractions are the newest maxInteractions of the
\* entry's interactions whose age is at most maxAge and, when a channel
\* allow-list is given, whose channel is in the list, newest first.
C15_FilteredNewest ==
  ContextDone =>
    LET Pass(i) == /\ InAge(i)
                   /\ "channels" \in DOMAIN ret.options => InChannels(i)
    IN  NewestThatPass(ret.context.recentInteractions, Pass)

\* C15 amended: recentInteractions are the newest maxInteractions of the
\* entry's interactions whose age is at most maxAge, unless maxAge is 0,
\* which sets no age limit, and, when a channel allow-list that is not empty
\* is given, whose channel is in the list, newest first.
C15_FilteredNewestUnlessFalsy ==
  ContextDone =>
    LET Pass(i) ==
          /\ Option(ret.options, "maxAge", DefaultMaxAge) # 0 => InAge(i)
          /\ ("channels" \in DOMAIN ret.options /\ ret.options.channels # << >>)
               => InChannels(i)
    IN  NewestThatPass(ret.context.recentInteractions, Pass)

\* C15 witness: a context of the default options has been assembled from an
\* entry of more than 10 interactions within 30 days and some older ones.
C15_Witness ==
  /\ ContextDone
  /\ ret.options = << >>
  /\ Len(ret.context.recentInteractions) = DefaultMaxInteractions
  /\ \E j \in DOMAIN ContextEntry.interactions :
       now - ContextEntry.interactions[j].timestamp > DefaultMaxAge
  /\ \E j \in DOMAIN ContextEntry.interactions :
       now - ContextEntry.interactions[j].timestamp = DefaultMaxAge

\* C16: the key facts assembleContext returns are facts of the entry of
\* confidence minConfidence (default 0.5) or more, sorted by confidence
\* descending, and at most 10.
C16_ConfidentFacts ==
  ContextDone =>
    LET facts == ret.context.keyFacts
    IN  /\ \A k \in DOMAIN facts :
             /\ \E j \in DOMAIN ContextEntry.keyFacts :
                  ContextEntry.keyFacts[j] = facts[k]
             /\ facts[k].confidence
                  >= Option(ret.options, "minConfidence", DefaultMinConfidence)
             /\ \A j \in 1..(k - 1) : facts[j].confidence >= facts[k].confidence
        /\ Len(facts) <= FactCap

\* C16 witness: a context with minConfidence 0.6 has been assembled from an
\* entry of more than 10 facts, some of confidence below 0.6, and holds
\* facts of two confidences.
C16_Witness ==
  /\ ContextDone
  /\ Option(ret.options, "minConfidence", DefaultMinConfidence) = 6
  /\ Len(ContextEntry.keyFacts) > FactCap
  /\ \E j \in DOMAIN ContextEntry.keyFacts : ContextEntry.keyFacts[j].confidence < 6
  /\ Len(ret.context.keyFacts) > 1
  /\ ret.context.keyFacts[1].confidence
       > ret.context.keyFacts[Len(ret.context.keyFacts)].confidence

\* C17: storeContactMemory applied again to the entry a sync has just
\* handed to it leaves the entry rows, the interaction rows and the fact rows
\* as the first application left them, and ends as the first one did.
C17_WriteIdempotent ==
  SyncWrote =>
    LET again == storeContactMemory(LastMemory, contact_memory, interactions,
                                    key_facts)
    IN  /\ again.contact_memory = contact_memory
        /\ again.interactions = interactions
        /\ again.key_facts = key_facts
        /\ again.ok <=> ret.status = "ok"

\* C17 witness: the second sync started has written an entry with
\* interactions and facts while the other contact has rows too.
C17_Witness ==
  /\ SyncDone
  /\ calls = MaxSyncs
  /\ RowsIn(interactions, ret.contactId) # << >>
  /\ RowsIn(key_facts, ret.contactId) # << >>
  /\ \E c \in Contacts \ {ret.contactId} : RowsIn(interactions, c) # << >>

\* C18: a sync that completes leaves its contact with an entry; an entry,
\* once there, is there after every step; addInteraction that succeeds on a
\* contact with an entry sets the entry's last_updated; addInteraction on a
\* contact without an entry creates none, so that getContactMemory still
\* finds nothing.
C18_EntryLifecycle ==
  [][ /\ SyncDone' => contact_memory'[ret'.contactId] # NoRow
      /\ \A c \in Contacts : contact_memory[c] # NoRow => contact_memory'[c] # NoRow
      /\ (ret'.op = "append" /\ ret'.status = "ok"
            /\ contact_memory[ret'.contactId] # NoRow)
           => contact_memory'[ret'.contactId].last_updated = now
      /\ (ret'.op = "append" /\ contact_memory[ret'.contactId] = NoRow)
           => /\ contact_memory'[ret'.contactId] = NoRow
              /\ getContactMemory(ret'.contactId, contact_memory', interactions',
                                  key_facts') = NoRow ]_vars

\* C18 witness: addInteraction has stored an interaction for a contact that
\* has no entry, while the other contact has one.
C18_Witness ==
  /\ ret.op = "append"
  /\ ret.status = "ok"
  /\ contact_memory[ret.contactId] = NoRow
  /\ RowsIn(interactions, ret.contactId) # << >>
  /\ \E c \in Contacts : contact_memory[c] # NoRow

\* C20: when the sync has compacted, the interaction rows it stored are
\* those of compact's final list: the recent interactions followed by one
\* summary per week group of more than one kept old interaction and by the
\* member itself of every group of one.
C20_StoresSummaries ==
  Compacted =>
    RowsIn(interactions, ret.contactId)
      = InteractionRows(ret.contactId, CompactLocals(LastIndexed, now).final)

\* The weekly summaries compact has made in the sync that just finished.
Summaries ==
  LET IsSummary(i) == i.id[1] = "summary"
  IN  SelectSeq(CompactLocals(LastIndexed, now).summarized, IsSummary)

\* The kept old interactions a summary stands for: those of its week.
MembersOf(s) ==
  WeekGroup(CompactLocals(LastIndexed, now).toKeep, << s.id[2], s.id[3] >>)

\* C21 as claimed: a weekly summary carries the timestamp of the earliest
\* member of its group, so that it is no later than any member.
C21_SummaryAtEarliest ==
  Compacted =>
    \A k \in DOMAIN Summaries :
      \A j \in DOMAIN MembersOf(Summaries[k]) :
        Summaries[k].timestamp <= MembersOf(Summaries[k])[j].timestamp

\* C21 amended: a weekly summary carries the timestamp of the first member
\* of its group, which is the newest one, the list being sorted newest
\* first: it is no earlier than any member.
C21_SummaryAtNewest ==
  Compacted =>
    \A k \in DOMAIN Summaries :
      /\ Len(MembersOf(Summaries[k])) > 1
      /\ Summaries[k].timestamp = MembersOf(Summaries[k])[1].timestamp
      /\ \A j \in DOMAIN MembersOf(Summaries[k]) :
           Summaries[k].timestamp >= MembersOf(Summaries[k])[j].timestamp

\* C21 witness: compact has summarized a week whose members are not all of
\* the same day.
C21_Witness ==
  /\ Compacted
  /\ \E k \in DOMAIN Summaries :
       \E j \in DOMAIN MembersOf(Summaries[k]) :
         MembersOf(Summaries[k])[j].timestamp < Summaries[k].timestamp

\* C22: compact does not modify the list passed to it: the caller's list
\* is the same, in order and elements, after the call as before.
C22_CompactLeavesList ==
  ret.op = "compact" => ret.list = arg[1].interactions

\* C23: the rows of the Store change only in a step of syncContactFromGHL
\* or addInteraction: a day that passes, initialize, close, getContactMemory,
\* getContactContext, formatContextForAI and searchContacts leave the three
\* tables as they are.
C23_OnlyIngestionWrites ==
  [][ << contact_memory, interactions, key_facts >>'
        # << contact_memory, interactions, key_facts >>
      => ret'.op \in { "sync", "append" } ]_vars

\* A read has returned from a Store that holds an entry and its rows.
C23_Witness ==
  /\ ret.op \in { "read", "context", "format", "search" }
  /\ ret.status = "ok"
  /\ contact_memory["c1"] # NoRow
  /\ InteractionRows("c1", << >>) # RowsIn(interactions, "c1")
  /\ now > Day0

\* assembleContext has returned the context of the entry of the argument.
Assembled == ret.op = "assemble"

Recommends(text) ==
  \E k \in DOMAIN ret.context.recommendations :
     ret.context.recommendations[k] = text

\* How many of the first n (or fewer) entries of the history are negative.
NegativesAmong(history, n) ==
  LET IsNeg(h) == h.sentiment = "negative"
  IN  CountSeq(SubSeq(history, 1, Min(Len(history), n)), IsNeg)

\* C24: the context has the negative-sentiment recommendation exactly when
\* 2 or more of the (up to 3) most recent entries of the sentiment history
\* are negative, also when the history has only 2 entries.
C24_NegativeTrend ==
  Assembled =>
    (Recommends("Exercise extra care - recent negative sentiment detected")
       <=> NegativesAmong(arg[1].memory.sentiment.history, TrendWindow) >= 2)

\* C24, amended: the context has the negative-sentiment recommendation
\* exactly when the history has 3 or more entries and 2 or more of the 3 most
\* recent are negative.
C24_NegativeTrendOfThree ==
  Assembled =>
    (Recommends("Exercise extra care - recent negative sentiment detected")
       <=> /\ Len(arg[1].memory.sentiment.history) >= TrendWindow
           /\ NegativesAmong(arg[1].memory.sentiment.history, TrendWindow) >= 2)

\* The history has 2 entries, both negative, and the context does not have
\* the recommendation.
C24_Witness ==
  /\ Assembled
  /\ Len(arg[1].memory.sentiment.history) = 2
  /\ NegativesAmong(arg[1].memory.sentiment.history, TrendWindow) = 2
  /\ ~ Recommends("Exercise extra care - recent negative sentiment detected")

\* C25: with the default options, the context of an entry whose newest
\* interaction is more than 14 days old has the contact-gap recommendation.
C25_GapFlagged ==
  (/\ Assembled
   /\ arg[1].options = << >>
   /\ arg[1].memory.interactions # << >>
   /\ now - arg[1].memory.interactions[1].timestamp > GapDays)
  => Recommends("It has been a while since last contact - acknowledge the gap")

\* C26: the score calculateRelevance returns is at least 0 and at most 1.
C26_ScoreInUnitInterval ==
  ret.op = "relevance" => 0 <= ret.score /\ ret.score <= ScoreUnit

\* C27: interaction ids need only be unique within a contact: a
\* syncContactFromGHL or addInteraction fails on the PRIMARY KEY only when
\* the id is already stored for the same contact, never because another
\* contact holds it.
C27_IdsUniquePerContact ==
  [][ (/\ ret'.op \in { "sync", "append" }
       /\ ret'.status = "error"
       /\ ret'.error = PrimaryKey)
      => /\ ret'.op = "append"
         /\ HasId(RowsIn(interactions, ret'.contactId), ret'.id) ]_vars

\* C28: after a syncContactFromGHL that returned normally, every fact row of
\* the contact has as its source the id of an interaction row stored for the
\* same contact.
C28_FactSourcesStored ==
  SyncDone =>
    \A k \in DOMAIN key_facts :
       key_facts[k].contact_id = ret.contactId
         => HasId(RowsIn(interactions, ret.contactId), key_facts[k].source)

\* C29: a step of syncContactFromGHL or addInteraction for one contact,
\* whether it returns or throws, leaves the entry row, the interaction rows
\* and the fact rows of every other contact as they are.
C29_OtherContactsUntouched ==
  [][ ret'.op \in { "sync", "append" }
      => \A other \in Contacts \ { ret'.contactId } :
            /\ contact_memory'[other] = contact_memory[other]
            /\ RowsIn(interactions', other) = RowsIn(interactions, other)
            /\ RowsIn(key_facts', other) = RowsIn(key_facts, other) ]_vars

\* A sync of c2 has thrown while c1 has an entry, interaction rows and fact
\* rows.
C29_Witness ==
  /\ ret.op = "sync"
  /\ ret.contactId = "c2"
  /\ ret.status = "error"
  /\ ret.error = PrimaryKey
  /\ contact_memory["c1"] # NoRow
  /\ RowsIn(interactions, "c1") # << >>
  /\ RowsIn(key_facts, "c1") # << >>

\* The interactions of `kept` that summarizeInteractions merges away: all
\* but one of every week.
MergedAway(kept) ==
  Len(kept) - Cardinality({ getWeekKey(kept[k].timestamp) : k \in DOMAIN kept })

\* C30: compact returns originalCount equal to the length of its input,
\* compactedCount at most min(100, originalCount), and compactedCount +
\* removed at most originalCount, short of it by exactly the number of
\* interactions merged away into weekly summaries.
C30_Accounting ==
  ret.op = "compact" =>
    /\ ret.result.originalCount = Len(arg[1].interactions)
    /\ ret.result.compactedCount
         <= Min(maxInteractions, ret.result.originalCount)
    /\ ret.result.compactedCount + ret.result.removed
         <= ret.result.originalCount
    /\ ret.result.originalCount - ret.result.compactedCount - ret.result.removed
         = MergedAway(CompactLocals(arg[1].interactions, now).toKeep)

\* compact has merged interactions into summaries and has cut the list at
\* the cap.
C30_Witness ==
  /\ ret.op = "compact"
  /\ MergedAway(CompactLocals(arg[1].interactions, now).toKeep) > 0
  /\ Len(CompactLocals(arg[1].interactions, now).compacted) > maxInteractions
  /\ ret.result.removed > 0
====
